---- MODULE Spec2Model ----
(***************************************************************************)
(* Model of the tournament orchestration of COL333_A5_Evaluation:          *)
(*   run_elimination_tournament.py  (EliminationTournament, the pool       *)
(*   worker run_single_match_parallel, run_round_parallel, run_tournament) *)
(*                                                                         *)
(* Specifications                                                          *)
(*   Spec            one OS process (a multiprocessing.Pool worker) that   *)
(*                   executes run_match calls one after the other, one     *)
(*                   step per run_game call                                *)
(*   SpecRound       run_round_parallel: the pool, its workers (separate   *)
(*                   processes, each with its own module globals), the     *)
(*                   ordered result list of pool.map                       *)
(*   SpecTournament  run_tournament: the rounds, the ports handed out      *)
(*   SpecPort        get_next_port, one lock and one counter per instance  *)
(***************************************************************************)
EXTENDS Integers, Sequences, FiniteSets, TLC

(***************************************************************************)
(* Bounds of the model                                                     *)
(***************************************************************************)
\* seeds of the participants a run_match call is given in Spec: 1..MaxSeed
MaxSeed == 3
\* run_match calls one worker process executes in Spec
MaxCalls == 2
\* matches of the round run_round_parallel is given in SpecRound: 1..MaxMatches
MaxMatches == 3
\* MAX_PARALLEL_MATCHES, the cap on the pool's workers, scaled down from 16
MAX_PARALLEL_MATCHES == 2
\* matches of a whole tournament that player2 wins in SpecTournament
MaxPlayer2Wins == 2
\* get_next_port calls of a run in SpecPort
MaxPortCalls == 4

(***************************************************************************)
(* Program constants                                                       *)
(***************************************************************************)
BASE_PORT == 9600

\* SERVER_TIME_LIMITS['small'] and TIME_LIMITS['small'] as the module sets them
DefaultLimits == [server |-> 120, watchdog |-> 300]
\* the values the tiebreaker battle 1 writes into the two tables
TB1Limits == [server |-> 60, watchdog |-> 150]
\* mutant: battle 2 shortens the watchdog to the server budget of battle 1
TB2LimitsWatchdogTooShort == [server |-> 60, watchdog |-> 60]

\* the values the tiebreaker battle 2 writes into the two tables
TB2Limits == [server |-> 30, watchdog |-> 90]

\* mutant: every match of the round is given the base port
PortAlwaysBase(i) == BASE_PORT

\* mutant: the port is chosen by worker slot, as run_all_tests_parallel does
PortByWorkerSlot(i) == BASE_PORT + ((i - 1) % MAX_PARALLEL_MATCHES)

\* port = BASE_PORT + i - 1 for the i-th match of a round (i from 1)
PortOf(i) == BASE_PORT + i - 1

\* the port run_tournament passes to run_match for the final
FinalPort == BASE_PORT

(***************************************************************************)
(* Values                                                                  *)
(***************************************************************************)
\* Python's None for a score
NoScore == -1
\* a row of the seed table; the player name is identified with its row number
Participant(s) == [seed |-> s, player |-> s]
\* Python's None / unbound for a participant
NoPlayer == [seed |-> 0, player |-> 0]

\* the scores a final-score record can carry (two values give <, =, >)
Scores == {0, 1}

\* parse_game_result on a log with a final-score record: winner by comparison
ScoredResult(c, s) ==
    [winner |-> IF c > s THEN "circle" ELSE IF s > c THEN "square" ELSE "draw",
     circle_score |-> c, square_score |-> s]

\* what run_game can return: (winner, circle_score, square_score); "none" is None.
\* A winner word other than circle/square (from a 'Winner:' marker) is treated by
\* run_match exactly like "none" apart from the text stored in the row.
GameResults ==
    {ScoredResult(c, s) : c \in Scores, s \in Scores}
    \cup {[winner |-> w, circle_score |-> NoScore, square_score |-> NoScore] :
             w \in {"circle", "square", "none"}}

\* what a run_game call can do: return a result, or raise (the pkill sweeps run
\* with timeout=2 and raise subprocess.TimeoutExpired; open/Popen can raise)
Raise == [winner |-> "raise", circle_score |-> NoScore, square_score |-> NoScore]
GameOutcomes == GameResults \cup {Raise}

\* the log_prefix of the six games of a match, in program order
GamePcs == <<"small_game1", "small_game2", "tiebreaker1_game1", "tiebreaker1_game2",
             "tiebreaker2_game1", "tiebreaker2_game2">>

\* position of a control point of run_match in program order
Rank(pc) ==
    CASE pc = "idle" -> 0
      [] pc = "small_game1" -> 1
      [] pc = "small_game2" -> 2
      [] pc = "tiebreaker1_game1" -> 3
      [] pc = "tiebreaker1_game2" -> 4
      [] pc = "tiebreaker2_game1" -> 5
      [] pc = "tiebreaker2_game2" -> 6
      [] OTHER -> 7

\* the tiebreak stage a game belongs to
StageOf(pc) ==
    CASE pc \in {"small_game1", "small_game2"} -> "NORMAL"
      [] pc \in {"tiebreaker1_game1", "tiebreaker1_game2"} -> "TB1"
      [] pc \in {"tiebreaker2_game1", "tiebreaker2_game2"} -> "TB2"
      [] OTHER -> "NONE"

(***************************************************************************)
(* run_match: the activation record (locals and the results dict)          *)
(***************************************************************************)
\* no run_match call has been made in the process yet
IdleFrame ==
    [pc |-> "idle", player1 |-> NoPlayer, player2 |-> NoPlayer,
     match_num |-> 0, port |-> 0,
     winner_g1 |-> "unset", winner_g2 |-> "unset",
     p1_wins |-> 0, p2_wins |-> 0,
     p1_total_score |-> 0, p2_total_score |-> 0,
     tb1_winner_g1 |-> "unset", tb1_p1_wins |-> 0, tb1_p2_wins |-> 0,
     tb2_winner_g1 |-> "unset", tb2_p1_wins |-> 0, tb2_p2_wins |-> 0,
     original_time_limit |-> 0, original_watchdog |-> 0,
     match_winner |-> NoPlayer, tiebreaker |-> "",
     \* what the last run_game call read and found in force (line 332)
     game |-> "none", timeout |-> 0, server_limit |-> 0,
     \* history: what the games of the normal pair found in force
     normal_timeout |-> 0, normal_server_limit |-> 0,
     \* history: the globals at the call, the number of run_game calls made
     entry |-> DefaultLimits, games |-> 0]

\* run_match entered with (match_info, round_name, match_num, port): lines 366-402
NewFrame(player1, player2, match_num, port, lim) ==
    [IdleFrame EXCEPT !.pc = "small_game1", !.player1 = player1, !.player2 = player2,
                      !.match_num = match_num, !.port = port, !.entry = lim]

\* run_game(..., log_prefix, ...) is called: it reads TIME_LIMITS[board_size]
Launched(fr, lim) ==
    [fr EXCEPT !.game = fr.pc, !.timeout = lim.watchdog, !.server_limit = lim.server,
               !.normal_timeout =
                   IF StageOf(fr.pc) = "NORMAL" THEN lim.watchdog ELSE @,
               !.normal_server_limit =
                   IF StageOf(fr.pc) = "NORMAL" THEN lim.server ELSE @,
               !.games = fr.games + 1]

\* the exception of run_game leaves run_match: nothing of run_match runs after it
Raised(fr) == [fr EXCEPT !.pc = "raised"]

\* a score is added to a total only if it is not None
AddScore(total, score) == IF score # NoScore THEN total + score ELSE total

\* mutant: player1 is counted as circle in both games
CountWinsSameRoles(g1, g2) ==
    << (IF g1 = "circle" THEN 1 ELSE 0) + (IF g2 = "circle" THEN 1 ELSE 0),
       (IF g1 = "square" THEN 1 ELSE 0) + (IF g2 = "square" THEN 1 ELSE 0) >>

\* wins of (player1, player2) in a role-swapped pair: player1 is circle in game 1
\* and square in game 2
CountWins(g1, g2) ==
    << (IF g1 = "circle" THEN 1 ELSE 0) + (IF g2 = "square" THEN 1 ELSE 0),
       (IF g1 = "square" THEN 1 ELSE 0) + (IF g2 = "circle" THEN 1 ELSE 0) >>

\* mutant: the elif branch is missing, player2's lead counts as a tie
DecideWithoutElif(a, b) == IF a > b THEN "player1" ELSE "tie"

\* if a > b: player1 / elif b > a: player2 / else: tie
Decide(a, b) == IF a > b THEN "player1" ELSE IF b > a THEN "player2" ELSE "tie"

\* mutant: the fallback leaves match_winner unbound
SeedFallbackUnset(player1, player2) == NoPlayer

\* mutant: the fallback compares the seeds the wrong way round
SeedFallbackHigherSeed(player1, player2) ==
    IF player1.seed > player2.seed THEN player1 ELSE player2

\* match_winner = player1 if player1['seed'] < player2['seed'] else player2
SeedFallbackWinner(player1, player2) ==
    IF player1.seed < player2.seed THEN player1 ELSE player2

\* mutant: the two restoring assignments are missing
RestoreNothing(fr, lim) == lim

\* 'Restore original time limits'
RestoreLimits(fr, lim) ==
    [server |-> fr.original_time_limit, watchdog |-> fr.original_watchdog]

\* mutant: a tied battle 2 goes back to battle 1
PcBackToTB1 == "tiebreaker1_game1"

\* where run_match goes when tiebreaker battle 2 is tied too: it returns
PcAfterTB2Tie == "returned"

\* the participant a decision names
Chosen(fr, who) == IF who = "player1" THEN fr.player1 ELSE fr.player2

(***************************************************************************)
(* run_match, one step per run_game call: the call and the code after it up *)
(* to the next run_game call or the return.  A step maps (frame, globals of *)
(* the process, outcome of the game) to <<frame, globals>>.                 *)
(***************************************************************************)
\* game 1 of the normal pair
Game1Step(fr, lim, o) ==
    LET f == Launched(fr, lim) IN
    IF o = Raise THEN <<Raised(f), lim>>
    ELSE <<[f EXCEPT !.pc = "small_game2", !.winner_g1 = o.winner,
                     !.p1_total_score = AddScore(f.p1_total_score, o.circle_score),
                     !.p2_total_score = AddScore(f.p2_total_score, o.square_score)],
           lim>>

\* game 2 of the normal pair, the win count and the decision
Game2Step(fr, lim, o) ==
    LET f == Launched(fr, lim)
        w == CountWins(f.winner_g1, o.winner)
        g == [f EXCEPT !.winner_g2 = o.winner,
                       !.p1_total_score = AddScore(f.p1_total_score, o.square_score),
                       !.p2_total_score = AddScore(f.p2_total_score, o.circle_score),
                       !.p1_wins = w[1], !.p2_wins = w[2]]
        d == Decide(w[1], w[2])
    IN
    IF o = Raise THEN <<Raised(f), lim>>
    ELSE IF d # "tie"
         THEN <<[g EXCEPT !.pc = "returned", !.match_winner = Chosen(g, d)], lim>>
         ELSE <<[g EXCEPT !.pc = "tiebreaker1_game1",
                          !.original_time_limit = lim.server,
                          !.original_watchdog = lim.watchdog],
                TB1Limits>>

\* tiebreaker battle 1, game 1
TB1Game1Step(fr, lim, o) ==
    LET f == Launched(fr, lim) IN
    IF o = Raise THEN <<Raised(f), lim>>
    ELSE <<[f EXCEPT !.pc = "tiebreaker1_game2", !.tb1_winner_g1 = o.winner], lim>>

\* tiebreaker battle 1, game 2, the win count and the decision
TB1Game2Step(fr, lim, o) ==
    LET f == Launched(fr, lim)
        w == CountWins(f.tb1_winner_g1, o.winner)
        g == [f EXCEPT !.tb1_p1_wins = w[1], !.tb1_p2_wins = w[2]]
        d == Decide(w[1], w[2])
    IN
    IF o = Raise THEN <<Raised(f), lim>>
    ELSE IF d # "tie"
         THEN <<[g EXCEPT !.pc = "returned", !.match_winner = Chosen(g, d),
                          !.tiebreaker = "tiebreaker_battle_1"],
                RestoreLimits(g, lim)>>
         ELSE <<[g EXCEPT !.pc = "tiebreaker2_game1"], TB2Limits>>

\* tiebreaker battle 2, game 1
TB2Game1Step(fr, lim, o) ==
    LET f == Launched(fr, lim) IN
    IF o = Raise THEN <<Raised(f), lim>>
    ELSE <<[f EXCEPT !.pc = "tiebreaker2_game2", !.tb2_winner_g1 = o.winner], lim>>

\* tiebreaker battle 2, game 2, the win count, the decision or the seed fallback
TB2Game2Step(fr, lim, o) ==
    LET f == Launched(fr, lim)
        w == CountWins(f.tb2_winner_g1, o.winner)
        g == [f EXCEPT !.tb2_p1_wins = w[1], !.tb2_p2_wins = w[2]]
        d == Decide(w[1], w[2])
    IN
    IF o = Raise THEN <<Raised(f), lim>>
    ELSE IF d # "tie"
         THEN <<[g EXCEPT !.pc = "returned", !.match_winner = Chosen(g, d),
                          !.tiebreaker = "tiebreaker_battle_2"],
                RestoreLimits(g, lim)>>
         ELSE <<[g EXCEPT !.pc = PcAfterTB2Tie,
                          !.match_winner = SeedFallbackWinner(g.player1, g.player2),
                          !.tiebreaker = "group_stage_seed"],
                RestoreLimits(g, lim)>>

\* the step run_match takes from its control point
GameStep(fr, lim, o) ==
    CASE fr.pc = "small_game1" -> Game1Step(fr, lim, o)
      [] fr.pc = "small_game2" -> Game2Step(fr, lim, o)
      [] fr.pc = "tiebreaker1_game1" -> TB1Game1Step(fr, lim, o)
      [] fr.pc = "tiebreaker1_game2" -> TB1Game2Step(fr, lim, o)
      [] fr.pc = "tiebreaker2_game1" -> TB2Game1Step(fr, lim, o)
      [] fr.pc = "tiebreaker2_game2" -> TB2Game2Step(fr, lim, o)

(***************************************************************************)
(* State                                                                   *)
(***************************************************************************)
VARIABLES
    limits,   \* per OS process: SERVER_TIME_LIMITS['small'], TIME_LIMITS['small']
    frame,    \* per OS process: the run_match activation it executes
    calls,    \* per OS process: the run_match calls it has made
    \* run_round_parallel
    rpc,          \* its control point: "idle", "mapping", "returned", "raised"
    matches,      \* its argument: the matches of the round
    args_list,    \* the tasks (match, round_name, i, port) given to pool.map
    num_workers,  \* the size of the pool
    job,          \* per task: "queued", "running", "done" or "failed"
    running,      \* per pool worker: the task it executes, 0 if none
    results_list, \* pool.map's result list, filled by task position
    winners,      \* the first list run_round_parallel returns
    all_results,  \* the second list run_round_parallel returns
    overtaken,    \* history: some task ended before a task submitted earlier
    \* run_tournament
    tpc,          \* its control point: the round it is about to run, "champion", "done", "raised"
    seeds,        \* self.seeds, the seed table
    players,      \* the winners of the last round, in the order of its match list
    csv_rows,     \* the rows appended to elimination_results.csv
    ports_handed, \* history: (round, match, port) of every match started
    champion,     \* the champion written to champion.txt
    p2wins,       \* history: matches of the run won by player2
    \* get_next_port, per process: the tournament object it has built
    next_port,    \* self.next_port
    port_lock,    \* self.port_lock: 0 if free, else the holder
    gpc,          \* control point in get_next_port
    gport,        \* the local variable port
    handed,       \* history: the ports returned, in the order the calls took the lock
    \* run_game
    game,         \* the run_game activation: control point, clock, child processes
    \* parse_game_result
    parse,        \* the two log files and what each parse_game_result returned for them
    \* run_match, the scores it records
    tally,        \* the results of a pair of games and the score entries made from them
    group,        \* the group-stage run_tournament: its loop over the matches and the CSV file
    staging,      \* the staging of a match or a test and the processes launched after it
    outer,        \* run_single_tournament: its control point, the temporary script, the group run
    tests         \* run_all_tests_parallel: the pool of test workers and the tests they run

tourVars == <<tpc, seeds, players, csv_rows, ports_handed, champion, p2wins>>

portVars == <<next_port, port_lock, gpc, gport, handed>>

roundVars == <<rpc, matches, args_list, num_workers, job, running, results_list,
               winners, all_results, overtaken>>

vars == <<limits, frame, calls, roundVars, tourVars, portVars, game, parse, tally, group, staging, outer, tests>>

\* the OS processes: 0 is the orchestrator, 1.. are pool workers
Procs == 0..MAX_PARALLEL_MATCHES

\* run_round_parallel has not been called
NoRound ==
    /\ rpc = "idle"
    /\ matches = << >>
    /\ args_list = << >>
    /\ num_workers = 0
    /\ job = << >>
    /\ running = [p \in Procs |-> 0]
    /\ results_list = << >>
    /\ winners = << >>
    /\ all_results = << >>
    /\ overtaken = FALSE

\* run_tournament has not been called
NoTournament ==
    /\ tpc = "idle"
    /\ seeds = << >>
    /\ players = << >>
    /\ csv_rows = << >>
    /\ ports_handed = << >>
    /\ champion = NoPlayer
    /\ p2wins = 0

\* no process has built a tournament object
NoAllocator ==
    /\ next_port = [p \in Procs |-> 0]
    /\ port_lock = [p \in Procs |-> 0]
    /\ gpc = [p \in Procs |-> "none"]
    /\ gport = [p \in Procs |-> 0]
    /\ handed = << >>

\* run_game has not been called
IdleGame ==
    [variant |-> "none", board_size |-> "small", pc |-> "idle", clock |-> 0,
     server |-> "none", player1 |-> "none", player2 |-> "none", launched |-> << >>,
     marker |-> FALSE, dead_at_settle |-> FALSE,
     connection_start |-> 0, both_connected |-> FALSE, connect_end |-> 0,
     start_time |-> 0, timeout_seconds |-> 0, watchdog_end |-> 0, ended_by |-> "",
     stop |-> [server |-> "", player1 |-> "", player2 |-> ""], swept |-> FALSE,
     \* the number of the game in its match; history of the games before it: their
     \* processes still running at this call, whether each was cleaned up and swept,
     \* the time between the end of the last one's watchdog loop and this call
     index |-> 1, earlier |-> {}, cleaned |-> TRUE, waited |-> 0]

NoGame == game = IdleGame

\* Python's None for a winner, a score pair and an error text
NothingParsed == [winner |-> "none", circle_score |-> NoScore, square_score |-> NoScore, error |-> ""]

\* a log file that does not exist
NoLog ==
    [exists |-> FALSE, timeout |-> FALSE, repetition |-> FALSE, invalid |-> "",
     turn_limit |-> FALSE, game_finished |-> FALSE, winner |-> "", score |-> << >>,
     tail |-> "short"]

\* parse_game_result has not been called
IdleParse ==
    [pc |-> "idle", variant |-> "none", server_log |-> NoLog, player_log |-> NoLog,
     result |-> NothingParsed]

NoParse == parse = IdleParse

\* the '' that run_match stores in the results dict for a score that is None
EmptyCell == -2

\* a run_game call that has not returned
NotPlayed == [winner |-> "unset", circle_score |-> NoScore, square_score |-> NoScore]

\* no pair of games is being recorded
IdleTally ==
    [pc |-> "idle", script |-> "none", stage |-> "none",
     game1 |-> NotPlayed, game2 |-> NotPlayed,
     game1_player1_score |-> EmptyCell, game1_player2_score |-> EmptyCell,
     game2_player1_score |-> EmptyCell, game2_player2_score |-> EmptyCell,
     p1_score |-> 0, p2_score |-> 0]

NoTally == tally = IdleTally

\* the entries of one game in the results dict of the group-stage run_match
NoEntry == [winner |-> "unset", player1_score |-> EmptyCell, player2_score |-> EmptyCell,
            error |-> ""]

\* the group-stage run_tournament has not been called
IdleGroup ==
    [pc |-> "idle", submissions |-> 0, matches |-> << >>, match_num |-> 0,
     game1 |-> NoEntry, game2 |-> NoEntry, csv |-> << >>, escaped |-> {},
     \* history: the games of the match in progress whose run_game call raised
     crashed |-> {}]

NoGroup == group = IdleGroup

\* nothing is being staged
IdleStaging ==
    [script |-> "none", pc |-> "idle",
     present |-> [player1 |-> FALSE, player2 |-> FALSE],
     cpp |-> [player1 |-> FALSE, player2 |-> FALSE],
     dir |-> [player1 |-> "none", player2 |-> "none"],
     launched |-> << >>, status |-> ""]

NoStaging == staging = IdleStaging

\* run_single_tournament has not been called
IdleOuter ==
    [pc |-> "idle", group_num |-> 0, port |-> 0, temp_script |-> FALSE,
     child |-> "none", clock |-> 0, status |-> "", swept |-> {}]

NoOuter == outer = IdleOuter

\* main of run_all_tests_parallel.py has not been started
IdleTests ==
    [pc |-> "idle", n |-> 0, chunksize |-> 0, next_chunk |-> 0,
     worker |-> << >>, done |-> {}]

NoTests == tests = IdleTests

\* the pool worker of Spec
TheWorker == 1

(***************************************************************************)
(* Spec: a pool worker executes run_single_match_parallel task after task   *)
(***************************************************************************)
Init ==
    /\ limits = [p \in Procs |-> DefaultLimits]
    /\ frame = [p \in Procs |-> IdleFrame]
    /\ calls = [p \in Procs |-> 0]
    /\ NoRound
    /\ NoTournament
    /\ NoAllocator
    /\ NoGame
    /\ NoParse
    /\ NoTally
    /\ NoGroup
    /\ NoStaging
    /\ NoOuter
    /\ NoTests

\* the worker takes a task: run_single_match_parallel builds a tournament object
\* and calls run_match with the task's match, number and port
Call(p) ==
    /\ frame[p].pc \in {"idle", "returned", "raised"}
    /\ calls[p] < MaxCalls
    /\ \E a \in 1..MaxSeed, b \in 1..MaxSeed :
          /\ a # b
          /\ frame' = [frame EXCEPT ![p] =
                 NewFrame(Participant(a), Participant(b), calls[p] + 1,
                          PortOf(calls[p] + 1), limits[p])]
    /\ calls' = [calls EXCEPT ![p] = @ + 1]
    /\ UNCHANGED <<tests, outer, staging, group, game, parse, tally, limits, roundVars, tourVars, portVars>>

\* one run_game call of run_match at control point pc, with the code after it
Play(p, pc) ==
    /\ frame[p].pc = pc
    /\ \E o \in GameOutcomes :
          LET r == GameStep(frame[p], limits[p], o) IN
          /\ frame' = [frame EXCEPT ![p] = r[1]]
          /\ limits' = [limits EXCEPT ![p] = r[2]]
    /\ UNCHANGED <<tests, outer, staging, group, game, parse, tally, calls, roundVars, tourVars, portVars>>

PlayGame1(p) == Play(p, "small_game1")
PlayGame2(p) == Play(p, "small_game2")
PlayTB1Game1(p) == Play(p, "tiebreaker1_game1")
PlayTB1Game2(p) == Play(p, "tiebreaker1_game2")
PlayTB2Game1(p) == Play(p, "tiebreaker2_game1")
PlayTB2Game2(p) == Play(p, "tiebreaker2_game2")

Next ==
    \/ Call(TheWorker)
    \/ PlayGame1(TheWorker)
    \/ PlayGame2(TheWorker)
    \/ PlayTB1Game1(TheWorker)
    \/ PlayTB1Game2(TheWorker)
    \/ PlayTB2Game1(TheWorker)
    \/ PlayTB2Game2(TheWorker)

Spec == Init /\ [][Next]_vars

(***************************************************************************)
(* Claims about run_match (Spec)                                           *)
(***************************************************************************)
\* the two participants of the activation of process p
PlayersOf(p) == {frame[p].player1, frame[p].player2}

\* C1: whenever run_match returns, whatever the games gave (circle, square, draw,
\* no result), the returned match winner is player1 or player2 of the match and
\* is never unset.
C1_WinnerIsParticipant ==
    \A p \in Procs :
        frame[p].pc = "returned" =>
            /\ frame[p].match_winner \in PlayersOf(p)
            /\ frame[p].match_winner # NoPlayer

\* C1 witness: a match none of whose six games gave a result has returned
C1_Witness ==
    \E p \in Procs :
        /\ frame[p].pc = "returned"
        /\ frame[p].games = 6
        /\ frame[p].winner_g1 = "none" /\ frame[p].winner_g2 = "none"
        /\ frame[p].tb1_winner_g1 = "none" /\ frame[p].tb2_winner_g1 = "none"
        /\ frame[p].tb1_p1_wins = 0 /\ frame[p].tb2_p1_wins = 0

\* C2: the tiebreak escalation is bounded: a match plays at most 6 games, so at
\* most 4 beyond the normal pair; every step of run_match moves forward in
\* program order (no stage is entered again) and plays exactly one more game;
\* no game follows the sixth; a match still tied after battle 2 has returned a
\* winner by the seed fallback.
C2_EscalationBounded ==
    /\ [](\A p \in Procs :
            /\ frame[p].games <= 6
            /\ frame[p].games - 2 <= 4
            /\ frame[p].games = 6 => frame[p].pc \in {"returned", "raised"}
            /\ (/\ frame[p].game = "tiebreaker2_game2"
                /\ frame[p].pc # "raised"
                /\ frame[p].tb2_p1_wins = frame[p].tb2_p2_wins)
               => /\ frame[p].pc = "returned"
                  /\ frame[p].tiebreaker = "group_stage_seed"
                  /\ frame[p].match_winner \in PlayersOf(p))
    /\ [][\A p \in Procs :
            (calls'[p] = calls[p] /\ frame'[p] # frame[p])
            => /\ Rank(frame'[p].pc) > Rank(frame[p].pc)
               /\ frame'[p].games = frame[p].games + 1]_vars

\* C2 witness: battle 2 ended 1-1 and the match has returned after six games
C2_Witness ==
    \E p \in Procs :
        /\ frame[p].pc = "returned"
        /\ frame[p].games = 6
        /\ frame[p].tb2_p1_wins = 1 /\ frame[p].tb2_p2_wins = 1
        /\ frame[p].tiebreaker = "group_stage_seed"

\* C3: the k-th game a match plays is the k-th of NORMAL(2), TB1(2), TB2(2), none
\* skipped; tiebreak games are played only when the normal win counts are equal,
\* battle-2 games only when the battle-1 win counts are equal too, and the seed
\* fallback is used only after the sixth game with equal battle-2 win counts.
C3_StagesInOrderOnTies ==
    \A p \in Procs :
        LET f == frame[p] IN
        /\ f.games > 0 => f.game = GamePcs[f.games]
        /\ f.games >= 3 => f.p1_wins = f.p2_wins
        /\ f.games >= 5 => f.tb1_p1_wins = f.tb1_p2_wins
        /\ f.tiebreaker = "group_stage_seed"
              => f.games = 6 /\ f.tb2_p1_wins = f.tb2_p2_wins
        /\ f.tiebreaker = "tiebreaker_battle_2"
              => f.games = 6 /\ f.tb2_p1_wins # f.tb2_p2_wins
        /\ f.tiebreaker = "tiebreaker_battle_1"
              => f.games = 4 /\ f.tb1_p1_wins # f.tb1_p2_wins
        /\ (f.pc = "returned" /\ f.tiebreaker = "")
              => f.games = 2 /\ f.p1_wins # f.p2_wins

\* C3 witness: a match tied 1-1 in the normal pair and 1-1 in battle 1 was
\* decided in battle 2
C3_Witness ==
    \E p \in Procs :
        /\ frame[p].pc = "returned"
        /\ frame[p].p1_wins = 1 /\ frame[p].p2_wins = 1
        /\ frame[p].tb1_p1_wins = 1 /\ frame[p].tb1_p2_wins = 1
        /\ frame[p].tiebreaker = "tiebreaker_battle_2"

\* C4: a match tied after the normal pair, battle 1 and battle 2 goes to the
\* participant with the lower seed number, whoever is player1 and whatever the
\* total scores of the two are.
C4_SeedFallbackLowerSeed ==
    \A p \in Procs :
        (frame[p].pc = "returned" /\ frame[p].tiebreaker = "group_stage_seed")
        => /\ frame[p].match_winner \in PlayersOf(p)
           /\ \A q \in PlayersOf(p) : frame[p].match_winner.seed <= q.seed
           /\ frame[p].p1_wins = frame[p].p2_wins
           /\ frame[p].tb1_p1_wins = frame[p].tb1_p2_wins
           /\ frame[p].tb2_p1_wins = frame[p].tb2_p2_wins

\* C4 witness: the fallback gave the match to player2, the lower seed, although
\* player1 has the higher total score
C4_Witness ==
    \E p \in Procs :
        /\ frame[p].pc = "returned"
        /\ frame[p].tiebreaker = "group_stage_seed"
        /\ frame[p].player2.seed < frame[p].player1.seed
        /\ frame[p].match_winner = frame[p].player2
        /\ frame[p].p1_total_score > frame[p].p2_total_score

\* C5: when run_match returns, the two limit tables hold the values they had at
\* the call, on every path; and every game ran under the values of its stage:
\* the values of the call in NORMAL, 60/150 in TB1, 30/90 in TB2.
C5_LimitsRestoredOnReturn ==
    \A p \in Procs :
        LET f == frame[p]
            inForce == [server |-> f.server_limit, watchdog |-> f.timeout]
        IN
        /\ f.pc = "returned" => limits[p] = f.entry
        /\ (f.games > 0 /\ StageOf(f.game) = "NORMAL") => inForce = f.entry
        /\ (f.games > 0 /\ StageOf(f.game) = "TB1") => inForce = TB1Limits
        /\ (f.games > 0 /\ StageOf(f.game) = "TB2") => inForce = TB2Limits

\* C5 witness: a match decided in battle 2 has returned, its last game ran under
\* the battle-2 watchdog
C5_Witness ==
    \E p \in Procs :
        /\ frame[p].pc = "returned"
        /\ frame[p].tiebreaker = "tiebreaker_battle_2"
        /\ frame[p].timeout = TB2Limits.watchdog
        /\ limits[p] = DefaultLimits

(***************************************************************************)
(* run_match as a whole: every way a call can end, obtained by running the  *)
(* steps above over all game outcomes                                       *)
(***************************************************************************)
\* the values the two limit tables of a process can hold
LimitValues == {DefaultLimits, TB1Limits, TB2Limits}

\* the ends (returned or raised) reachable from a set of <<frame, globals>> pairs
\* by at most k more run_game calls
RECURSIVE Ends(_, _)
Ends(S, k) ==
    LET done == {x \in S : x[1].pc \in {"returned", "raised"}}
        next == {GameStep(x[1], x[2], o) : x \in S \ done, o \in GameOutcomes}
    IN IF S \ done = {} \/ k = 0 THEN done ELSE done \cup Ends(next, k - 1)

\* what the caller of run_match sees of an end, and what it leaves in the process
EndOf(fr, lim) ==
    [status |-> fr.pc,
     who |-> IF fr.match_winner = NoPlayer THEN "nobody"
             ELSE IF fr.match_winner = fr.player1 THEN "player1" ELSE "player2",
     tiebreaker |-> fr.tiebreaker,
     normal_timeout |-> fr.normal_timeout,
     normal_server_limit |-> fr.normal_server_limit,
     limits_after |-> lim]

\* run_match reads the two participants only to compare their seeds and to copy
\* them: its ends are tabulated once per order of the seeds and per value of the
\* globals at the call, unfolding one step per run_game call site of run_match
EndTable ==
    UNION {
      {[lower_first |-> lf, entry |-> l, end |-> EndOf(x[1], x[2])] :
          x \in Ends({<<NewFrame(Participant(IF lf THEN 1 ELSE 2),
                                 Participant(IF lf THEN 2 ELSE 1), 1, BASE_PORT, l),
                        l>>}, Len(GamePcs))} :
      lf \in BOOLEAN, l \in LimitValues}

\* the ends of run_match(match, round_name, n, port) in a process whose globals are lim
MatchEnds(match, n, port, lim) ==
    {[status |-> t.end.status,
      match_num |-> n,
      port |-> port,
      player1 |-> match.player1,
      player2 |-> match.player2,
      match_winner |-> CASE t.end.who = "player1" -> match.player1
                         [] t.end.who = "player2" -> match.player2
                         [] OTHER -> NoPlayer,
      tiebreaker |-> t.end.tiebreaker,
      normal_timeout |-> t.end.normal_timeout,
      normal_server_limit |-> t.end.normal_server_limit,
      limits_after |-> t.end.limits_after] :
        t \in {u \in EndTable : /\ u.lower_first = (match.player1.seed < match.player2.seed)
                                /\ u.entry = lim}}

\* the tabulated ends are the ends of the stepwise run_match of Spec
EndTableAgreesWithSteps ==
    \A p \in Procs :
        frame[p].pc \in {"returned", "raised"} =>
            \E e \in MatchEnds([player1 |-> frame[p].player1, player2 |-> frame[p].player2],
                               frame[p].match_num, frame[p].port, frame[p].entry) :
                /\ e.status = frame[p].pc
                /\ e.match_winner = frame[p].match_winner
                /\ e.tiebreaker = frame[p].tiebreaker
                /\ e.normal_timeout = frame[p].normal_timeout
                /\ e.normal_server_limit = frame[p].normal_server_limit
                /\ e.limits_after = limits[p]

(***************************************************************************)
(* SpecRound: run_round_parallel                                            *)
(***************************************************************************)
\* the seed table load_seeds reads: extract_elimination_seeds numbers the rows 1..N
SeedTable(N) == [i \in 1..N |-> Participant(i)]

\* mutant: the low seed of the second match is taken one place too low
CreateBracketOffByOne(table) ==
    [i \in 1..(Len(table) \div 2) |->
        [match_id |-> i, player1 |-> table[i],
         player2 |-> table[IF i = 2 THEN Len(table) ELSE Len(table) + 1 - i]]]

\* mutant: neighbours of the seed table are paired
CreateBracketAdjacent(table) ==
    [i \in 1..(Len(table) \div 2) |->
        [match_id |-> i, player1 |-> table[2 * i - 1], player2 |-> table[2 * i]]]

\* create_bracket: match i pairs seeds[i] with seeds[num_seeds + 1 - i]
CreateBracket(table) ==
    [i \in 1..(Len(table) \div 2) |->
        [match_id |-> i, player1 |-> table[i], player2 |-> table[Len(table) + 1 - i]]]

Min(a, b) == IF a < b THEN a ELSE b

\* placeholder of a position of the result list that has not been set
NoResult ==
    [status |-> "none", match_num |-> 0, port |-> 0,
     player1 |-> NoPlayer, player2 |-> NoPlayer, match_winner |-> NoPlayer,
     tiebreaker |-> "", normal_timeout |-> 0, normal_server_limit |-> 0]

\* what a task leaves in the result list: the pair run_match returned, or the
\* exception (the history fields record what its normal games ran under)
Stored(e) ==
    [status |-> e.status, match_num |-> e.match_num, port |-> e.port,
     player1 |-> e.player1, player2 |-> e.player2, match_winner |-> e.match_winner,
     tiebreaker |-> e.tiebreaker, normal_timeout |-> e.normal_timeout,
     normal_server_limit |-> e.normal_server_limit]

\* mutant: the results are collected in the order the tasks ended
\* (imap_unordered instead of map): a task that was overtaken swaps places
CollectAsCompleted(rl, ot) ==
    IF ot /\ Len(rl) >= 2
    THEN [i \in 1..Len(rl) |-> IF i = 1 THEN rl[2] ELSE IF i = 2 THEN rl[1] ELSE rl[i]]
    ELSE rl

\* pool.map returns the results by position of the task in args_list
CollectResults(rl, ot) == rl

InitRound ==
    /\ limits = [p \in Procs |-> DefaultLimits]
    /\ frame = [p \in Procs |-> IdleFrame]
    /\ calls = [p \in Procs |-> 0]
    /\ rpc = "idle"
    /\ \E m \in 1..MaxMatches : matches = CreateBracket(SeedTable(2 * m))
    /\ args_list = << >>
    /\ num_workers = 0
    /\ job = << >>
    /\ running = [p \in Procs |-> 0]
    /\ results_list = << >>
    /\ winners = << >>
    /\ all_results = << >>
    /\ overtaken = FALSE
    /\ NoTournament
    /\ NoAllocator
    /\ NoGame
    /\ NoParse
    /\ NoTally
    /\ NoGroup
    /\ NoStaging
    /\ NoOuter
    /\ NoTests

\* run_round_parallel up to the call of pool.map: the ports, the pool
StartRound ==
    /\ rpc = "idle"
    /\ args_list' = [i \in 1..Len(matches) |->
                        [match |-> matches[i], match_num |-> i, port |-> PortOf(i)]]
    /\ num_workers' = Min(Len(matches), MAX_PARALLEL_MATCHES)
    /\ job' = [i \in 1..Len(matches) |-> "queued"]
    /\ results_list' = [i \in 1..Len(matches) |-> NoResult]
    /\ rpc' = "mapping"
    /\ UNCHANGED <<tests, outer, staging, group, game, parse, tally, limits, frame, calls, matches, running, winners, all_results, overtaken,
                   tourVars, portVars>>

\* mutant: a task stays in the queue until it has ended, so a second worker can
\* take a task that is running
NextTaskNotDequeued(i) ==
    /\ job[i] \in {"queued", "running"}
    /\ \A j \in 1..(i - 1) : job[j] \notin {"queued", "running"}

\* the task at the head of the pool's task queue: the first one not yet taken
NextTask(i) ==
    /\ job[i] = "queued"
    /\ \A j \in 1..(i - 1) : job[j] # "queued"

\* an idle worker of the pool takes the next task of the queue
TakeTask(w) ==
    /\ rpc = "mapping"
    /\ w \in 1..num_workers
    /\ running[w] = 0
    /\ \E i \in 1..Len(job) :
          /\ NextTask(i)
          /\ job' = [job EXCEPT ![i] = "running"]
          /\ running' = [running EXCEPT ![w] = i]
    /\ calls' = [calls EXCEPT ![w] = @ + 1]
    /\ UNCHANGED <<tests, outer, staging, group, game, parse, tally, limits, frame, rpc, matches, args_list, num_workers, results_list,
                   winners, all_results, overtaken,
                   tourVars, portVars>>

\* run_single_match_parallel ends in worker w: run_match returned or raised
FinishMatch(w) ==
    /\ rpc = "mapping"
    /\ running[w] # 0
    /\ LET i == running[w]
           a == args_list[i]
       IN \E e \in MatchEnds(a.match, a.match_num, a.port, limits[w]) :
             /\ results_list' = [results_list EXCEPT ![i] = Stored(e)]
             /\ job' = [job EXCEPT ![i] = IF e.status = "returned" THEN "done" ELSE "failed"]
             /\ limits' = [limits EXCEPT ![w] = e.limits_after]
             /\ overtaken' = (overtaken \/ \E j \in 1..(i - 1) : job[j] \in {"queued", "running"})
    /\ running' = [running EXCEPT ![w] = 0]
    /\ UNCHANGED <<tests, outer, staging, group, game, parse, tally, frame, calls, rpc, matches, args_list, num_workers, winners, all_results,
                   tourVars, portVars>>

\* mutant: the call returns as soon as one task has ended (no barrier)
SomeTaskDone == \E i \in 1..Len(job) : job[i] = "done"

\* pool.map blocks until every task of the round has ended
AllTasksDone == \A i \in 1..Len(job) : job[i] = "done"

\* every task has ended and none raised: pool.map returns, the lists are split
MapReturn ==
    /\ rpc = "mapping"
    /\ AllTasksDone
    /\ LET rl == CollectResults(results_list, overtaken) IN
          /\ winners' = [i \in 1..Len(rl) |-> rl[i].match_winner]
          /\ all_results' = rl
    /\ rpc' = "returned"
    /\ UNCHANGED <<tests, outer, staging, group, game, parse, tally, limits, frame, calls, matches, args_list, num_workers, job, running,
                   results_list, overtaken,
                   tourVars, portVars>>

\* every task has ended and one raised: pool.map raises its exception
MapRaise ==
    /\ rpc = "mapping"
    /\ \A i \in 1..Len(job) : job[i] \in {"done", "failed"}
    /\ \E i \in 1..Len(job) : job[i] = "failed"
    /\ rpc' = "raised"
    /\ UNCHANGED <<tests, outer, staging, group, game, parse, tally, limits, frame, calls, matches, args_list, num_workers, job, running,
                   results_list, winners, all_results, overtaken,
                   tourVars, portVars>>

NextRound ==
    \/ StartRound
    \/ \E w \in Procs : TakeTask(w)
    \/ \E w \in Procs : FinishMatch(w)
    \/ MapReturn
    \/ MapRaise

SpecRound == InitRound /\ [][NextRound]_vars

(***************************************************************************)
(* Claims about run_round_parallel (SpecRound)                              *)
(***************************************************************************)
\* the tasks that have ended, by returning or by raising
Ended == {i \in 1..Len(results_list) : results_list[i].status # "none"}

\* C6: every normal-stage game of every match of a round, in any interleaving
\* and also when a worker runs several matches one after the other, runs under
\* the default limits (watchdog 300, per-player budget 120): no value written by
\* a tiebreak stage of another match is ever read by it.
C6_NormalGamesUnderDefaults ==
    \A i \in Ended :
        /\ results_list[i].normal_timeout = DefaultLimits.watchdog
        /\ results_list[i].normal_server_limit = DefaultLimits.server

\* C7: the ports handed to the M matches of a round are BASE_PORT + i - 1 for
\* the i-th match of the list, hence pairwise distinct and increasing with i;
\* the port a match runs on is the one of its position.
C7_RoundPortsByPosition ==
    /\ \A i \in 1..Len(args_list) : args_list[i].port = BASE_PORT + i - 1
    /\ \A i \in 1..Len(args_list), j \in 1..Len(args_list) :
          i < j => args_list[i].port < args_list[j].port
    /\ \A i \in Ended : results_list[i].port = BASE_PORT + i - 1

\* C7 witness: a round of three matches, all of which have run on their ports
C7_Witness ==
    /\ Len(args_list) = 3
    /\ Ended = {1, 2, 3}

\* C10: when run_round_parallel returns, the i-th winner and the i-th result are
\* those of the i-th match of the input list, whatever order the matches ended in.
C10_ResultsInInputOrder ==
    rpc = "returned" =>
        /\ Len(winners) = Len(matches)
        /\ Len(all_results) = Len(matches)
        /\ \A i \in 1..Len(matches) :
              /\ all_results[i].match_num = i
              /\ all_results[i].player1 = matches[i].player1
              /\ all_results[i].player2 = matches[i].player2
              /\ winners[i] = all_results[i].match_winner
              /\ winners[i] \in {matches[i].player1, matches[i].player2}

\* C10 witness: the round returned although a later match ended before an earlier one
C10_Witness ==
    /\ rpc = "returned"
    /\ overtaken
    /\ Len(matches) >= 2

\* the pool workers that are executing a task
Busy == {w \in Procs : running[w] # 0}

\* the tasks a worker has taken from the queue
Started == {i \in 1..Len(job) : job[i] # "queued"}

\* the run_match calls made so far by the processes 0..n
RECURSIVE CallsUpTo(_)
CallsUpTo(n) == IF n = 0 THEN calls[0] ELSE calls[n] + CallsUpTo(n - 1)

\* C11: at every moment of a round at most min(number of matches,
\* MAX_PARALLEL_MATCHES) matches are in flight; a worker runs one match at a
\* time and no match is run by two workers; every match taken from the queue
\* has been run by exactly one run_match call, and when pool.map has ended
\* every submitted match has been run, once.
C11_BoundedPoolEachMatchOnce ==
    /\ Cardinality(Busy) <= Len(matches)
    /\ Cardinality(Busy) <= MAX_PARALLEL_MATCHES
    /\ \A v \in Busy, w \in Busy : v # w => running[v] # running[w]
    /\ \A i \in 1..Len(job) : job[i] = "running" <=> \E w \in Busy : running[w] = i
    /\ CallsUpTo(MAX_PARALLEL_MATCHES) = Cardinality(Started)
    /\ rpc \in {"returned", "raised"} =>
          /\ Busy = {}
          /\ Started = 1..Len(matches)
          /\ CallsUpTo(MAX_PARALLEL_MATCHES) = Len(matches)
          /\ \A i \in 1..Len(matches) : results_list[i].match_num = i

\* C11 witness: a round of more matches than workers: every worker is busy and
\* a match waits in the queue
C11_Witness ==
    /\ Len(matches) > MAX_PARALLEL_MATCHES
    /\ Cardinality(Busy) = MAX_PARALLEL_MATCHES
    /\ \E i \in 1..Len(job) : job[i] = "queued"

(***************************************************************************)
(* SpecTournament: run_tournament, one step per round                       *)
(***************************************************************************)
\* the sizes of the seed table the model runs the tournament on
SeedCounts == {2, 4, 8, 16, 32}

\* the subsets of 1..n with at most k elements
RECURSIVE SubsetsUpTo(_, _)
SubsetsUpTo(n, k) ==
    IF n = 0 \/ k = 0 THEN {{}}
    ELSE SubsetsUpTo(n - 1, k) \cup {u \cup {n} : u \in SubsetsUpTo(n - 1, k - 1)}

\* mutant: the winners are paired first against last, as a seed table is
PairingOutsideIn(ps) ==
    [j \in 1..(Len(ps) \div 2) |-> [player1 |-> ps[j], player2 |-> ps[Len(ps) + 1 - j]]]

\* [{'player1': ps[i], 'player2': ps[i+1]} for i in range(0, len(ps), 2)], len even
Pairing(ps) ==
    [j \in 1..(Len(ps) \div 2) |-> [player1 |-> ps[2 * j - 1], player2 |-> ps[2 * j]]]

\* the match list of the round run_tournament is about to run
RoundMatches ==
    IF tpc = "Round of 32" THEN CreateBracket(seeds) ELSE Pairing(players)

\* the round after a round
RoundAfter(r) ==
    CASE r = "Round of 32" -> "Round of 16"
      [] r = "Round of 16" -> "Quarterfinals"
      [] r = "Quarterfinals" -> "Semifinals"
      [] r = "Semifinals" -> "Final"

ParallelRounds == {"Round of 32", "Round of 16", "Quarterfinals", "Semifinals"}

\* the participants run_match can return as the winner of a match
PossibleWinners(match, n, port, lim) ==
    {e.match_winner : e \in {x \in MatchEnds(match, n, port, lim) : x.status = "returned"}}

\* the ports run_round_parallel hands to the matches of round r
PortsOfRound(r, ms) ==
    [i \in 1..Len(ms) |-> [round |-> r, match_num |-> i, port |-> PortOf(i)]]

InitTournament ==
    /\ limits = [p \in Procs |-> DefaultLimits]
    /\ frame = [p \in Procs |-> IdleFrame]
    /\ calls = [p \in Procs |-> 0]
    /\ NoRound
    /\ NoAllocator
    /\ NoGame
    /\ NoParse
    /\ NoTally
    /\ NoGroup
    /\ NoStaging
    /\ NoOuter
    /\ NoTests
    /\ tpc = "Round of 32"
    /\ \E N \in SeedCounts : seeds = SeedTable(N)
    /\ players = << >>
    /\ csv_rows = << >>
    /\ ports_handed = << >>
    /\ champion = NoPlayer
    /\ p2wins = 0

\* run_round_parallel returns: every match of the round returned a winner; the
\* rows of the round are appended to the table
RoundReturns ==
    /\ tpc \in ParallelRounds
    /\ Len(players) % 2 = 0
    /\ LET ms == RoundMatches IN
       /\ Len(ms) > 0
       /\ ports_handed' = ports_handed \o PortsOfRound(tpc, ms)
       /\ \E U \in SubsetsUpTo(Len(ms), MaxPlayer2Wins - p2wins) :
             LET ws == [i \in 1..Len(ms) |->
                           IF i \in U THEN ms[i].player2 ELSE ms[i].player1]
             IN /\ \A i \in 1..Len(ms) :
                      ws[i] \in PossibleWinners(ms[i], i, PortOf(i), DefaultLimits)
                /\ players' = ws
                /\ csv_rows' = csv_rows \o
                      [i \in 1..Len(ms) |->
                          [round |-> tpc, match_num |-> i, player1 |-> ms[i].player1,
                           player2 |-> ms[i].player2, match_winner |-> ws[i]]]
                /\ p2wins' = p2wins + Cardinality(U)
    /\ tpc' = RoundAfter(tpc)
    /\ UNCHANGED <<tests, outer, staging, group, game, parse, tally, limits, frame, calls, roundVars, portVars, seeds, champion>>

\* run_round_parallel raises: a match of the round raised, pool.map raises after
\* all matches have run, nothing of the round is appended
RoundRaises ==
    /\ tpc \in ParallelRounds
    /\ Len(players) % 2 = 0
    /\ LET ms == RoundMatches IN
       /\ Len(ms) > 0
       /\ ports_handed' = ports_handed \o PortsOfRound(tpc, ms)
    /\ tpc' = "raised"
    /\ UNCHANGED <<tests, outer, staging, group, game, parse, tally, limits, frame, calls, roundVars, portVars, seeds, players, csv_rows,
                   champion, p2wins>>

\* the pairing of the next round indexes past the end of an odd list of winners
PairingRaises ==
    /\ tpc \in ParallelRounds \ {"Round of 32"}
    /\ Len(players) % 2 = 1
    /\ tpc' = "raised"
    /\ UNCHANGED <<tests, outer, staging, group, game, parse, tally, limits, frame, calls, roundVars, portVars, seeds, players, csv_rows,
                   ports_handed, champion, p2wins>>

\* final_players[1] does not exist
FinalPairingRaises ==
    /\ tpc = "Final"
    /\ Len(players) < 2
    /\ tpc' = "raised"
    /\ UNCHANGED <<tests, outer, staging, group, game, parse, tally, limits, frame, calls, roundVars, portVars, seeds, players, csv_rows,
                   ports_handed, champion, p2wins>>

\* the final: run_match in the orchestrator on BASE_PORT, and its row
FinalMatch ==
    /\ tpc = "Final"
    /\ Len(players) >= 2
    /\ LET m == [player1 |-> players[1], player2 |-> players[2]] IN
       /\ ports_handed' = Append(ports_handed,
                                 [round |-> "Final", match_num |-> 1, port |-> FinalPort])
       /\ \E e \in MatchEnds(m, 1, FinalPort, limits[0]) :
             /\ limits' = [limits EXCEPT ![0] = e.limits_after]
             /\ IF e.status = "returned"
                THEN /\ e.match_winner = m.player2 => p2wins < MaxPlayer2Wins
                     /\ p2wins' = p2wins + (IF e.match_winner = m.player2 THEN 1 ELSE 0)
                     /\ csv_rows' = Append(csv_rows,
                            [round |-> "Final", match_num |-> 1, player1 |-> m.player1,
                             player2 |-> m.player2, match_winner |-> e.match_winner])
                     /\ champion' = champion
                     /\ tpc' = "champion"
                ELSE /\ tpc' = "raised"
                     /\ UNCHANGED <<tests, outer, staging, group, game, parse, tally, csv_rows, champion, p2wins>>
    /\ UNCHANGED <<tests, outer, staging, group, game, parse, tally, frame, calls, roundVars, portVars, seeds, players>>

\* mutant: the champion record names the first player of the final
ChampionFirstPlayer(row) == row.player1

\* champion is what run_match returned for the final: the participant whose name and
\* seed run_match stored as match_winner in the results of the final
ChampionOfFinal(row) == row.match_winner

\* champion.txt is written
WriteChampion ==
    /\ tpc = "champion"
    /\ champion' = ChampionOfFinal(csv_rows[Len(csv_rows)])
    /\ tpc' = "done"
    /\ UNCHANGED <<tests, outer, staging, group, game, parse, tally, limits, frame, calls, roundVars, portVars, seeds,
                   players, csv_rows, ports_handed, p2wins>>

NextTournament ==
    \/ RoundReturns
    \/ RoundRaises
    \/ PairingRaises
    \/ FinalPairingRaises
    \/ FinalMatch
    \/ WriteChampion

SpecTournament == InitTournament /\ [][NextTournament]_vars

(***************************************************************************)
(* Claims about the ports of a tournament run (SpecTournament)              *)
(***************************************************************************)
\* C8 as stated: over a whole tournament run no port number is handed out
\* twice, neither to a match of a later round nor to the final.
C8_NoPortHandedTwice ==
    \A i \in 1..Len(ports_handed), j \in 1..Len(ports_handed) :
        i # j => ports_handed[i].port # ports_handed[j].port

\* C8 amended: within one round no port is handed out twice; every round hands
\* out BASE_PORT, BASE_PORT + 1, ... again from its first match, and the final
\* runs on BASE_PORT: a port is reused by later rounds, never inside a round.
C8_PortsDistinctWithinRound ==
    /\ \A i \in 1..Len(ports_handed), j \in 1..Len(ports_handed) :
          (i # j /\ ports_handed[i].round = ports_handed[j].round)
          => ports_handed[i].port # ports_handed[j].port
    /\ \A i \in 1..Len(ports_handed) :
          ports_handed[i].port = BASE_PORT + ports_handed[i].match_num - 1

\* C8 witness: the final has run on the port the first match of the first round
\* of sixteen matches ran on
C8_Witness ==
    /\ tpc = "done"
    /\ Len(ports_handed) = 31
    /\ ports_handed[1].round = "Round of 32"
    /\ ports_handed[31].round = "Final"
    /\ ports_handed[31].port = ports_handed[1].port

(***************************************************************************)
(* Claims about the bracket (SpecTournament)                                *)
(***************************************************************************)
\* the rows of round r in the results table, in the order they were appended
RowsOf(r) == SelectSeq(csv_rows, LAMBDA row : row.round = r)

\* C13: for N = 2^k seeded participants the first round played is the bracket of
\* create_bracket: exactly N/2 matches, and every participant of the seed table
\* fills exactly one slot of them (player1 or player2), exactly once.
C13_BracketCoversSeedsOnce ==
    /\ tpc = "Round of 32" =>
          LET b == CreateBracket(seeds) IN
          /\ Len(b) * 2 = Len(seeds)
          /\ \A i \in 1..Len(seeds) :
                Cardinality({n \in 1..Len(b) : b[n].player1 = seeds[i]})
                + Cardinality({n \in 1..Len(b) : b[n].player2 = seeds[i]}) = 1
    /\ LET rows == RowsOf("Round of 32") IN
       rows # << >> =>
          /\ Len(rows) * 2 = Len(seeds)
          /\ \A i \in 1..Len(seeds) :
                Cardinality({n \in 1..Len(rows) : rows[n].player1 = seeds[i]})
                + Cardinality({n \in 1..Len(rows) : rows[n].player2 = seeds[i]}) = 1

\* C13 witness: the first round of a table of 32 has been played
C13_Witness ==
    /\ Len(seeds) = 32
    /\ Len(RowsOf("Round of 32")) = 16

\* C14: with the seeds 1..N in ascending order, round-1 match i has the
\* participant of seed i as player1 and the participant of seed N+1-i as
\* player2: the two seed numbers of every round-1 match sum to N+1.
C14_SeedsSumToNPlusOne ==
    LET rows == RowsOf("Round of 32") IN
    \A n \in 1..Len(rows) :
        LET row == rows[n] IN
        /\ row.match_num = n
        /\ row.player1 = seeds[n]
        /\ row.player1.seed = n
        /\ row.player2.seed = Len(seeds) + 1 - n
        /\ row.player1.seed + row.player2.seed = Len(seeds) + 1

\* C14 witness: the first round of a table of 8 has been played: 1-8, 2-7, 3-6, 4-5
C14_Witness ==
    /\ Len(seeds) = 8
    /\ Len(RowsOf("Round of 32")) = 4
    /\ RowsOf("Round of 32")[4].player1.seed = 4
    /\ RowsOf("Round of 32")[4].player2.seed = 5

\* the rounds of the tournament in the order run_tournament plays them
RoundOrder == <<"Round of 32", "Round of 16", "Quarterfinals", "Semifinals", "Final">>

\* n halved k times
RECURSIVE Halved(_, _)
Halved(n, k) == IF k = 0 THEN n ELSE Halved(n \div 2, k - 1)

\* C15: for every N = 2^k seeded participants run_tournament plays rounds of
\* N/2, N/4, ..., 1 matches; it stops when exactly one winner remains, who is
\* the champion; it never tries to pair a round from a single remaining winner
\* (the run fails only when a match fails).
C15_RoundsHalveToChampion ==
    /\ \A k \in 1..5 :
          RowsOf(RoundOrder[k]) # << >> => Len(RowsOf(RoundOrder[k])) = Halved(Len(seeds), k)
    /\ (tpc \in (ParallelRounds \cup {"Final"}) /\ tpc # "Round of 32") => Len(players) >= 2
    /\ (tpc = "raised" /\ csv_rows # << >>) =>
          csv_rows[Len(csv_rows)].round # RoundOrder[5] /\
          Len(RowsOf(csv_rows[Len(csv_rows)].round)) > 1
    /\ tpc = "done" =>
          /\ Len(RowsOf(csv_rows[Len(csv_rows)].round)) = 1
          /\ champion = csv_rows[Len(csv_rows)].match_winner

\* C16: match j of a round has as player1 the winner of match 2j-1 and as player2
\* the winner of match 2j of the round before (1-indexed), in the order of that
\* round's match list, whatever the seeds of the winners; every winner of the
\* round before fills exactly one slot.
C16_WinnersCarriedInSlotOrder ==
    \A k \in 2..5 :
        LET prev == RowsOf(RoundOrder[k - 1])
            cur == RowsOf(RoundOrder[k])
        IN cur # << >> =>
              /\ Len(cur) * 2 = Len(prev)
              /\ \A j \in 1..Len(cur) :
                    /\ cur[j].match_num = j
                    /\ cur[j].player1 = prev[2 * j - 1].match_winner
                    /\ cur[j].player2 = prev[2 * j].match_winner
              /\ \A n \in 1..Len(prev) :
                    Cardinality({j \in 1..Len(cur) : cur[j].player1 = prev[n].match_winner})
                    + Cardinality({j \in 1..Len(cur) : cur[j].player2 = prev[n].match_winner})
                    = 1

\* C16 witness: a second round has been played in which a lower-ranked winner
\* (a player2 of the first round) is player1 and a better seed is player2
C16_Witness ==
    \E j \in 1..Len(RowsOf("Round of 16")) :
        LET row == RowsOf("Round of 16")[j] IN
        /\ row.player1.seed > row.player2.seed
        /\ row.player1 = RowsOf("Round of 32")[2 * j - 1].player2

\* C17: with 4 seeded participants the first round is (S1,S4), (S2,S3); if S1
\* and S3 win, the next match is (S1,S3); that match is the last one and its
\* winner is the champion.
C17_FourSeedScenario ==
    Len(seeds) = 4 =>
        /\ Len(csv_rows) >= 2 =>
              /\ csv_rows[1].player1 = seeds[1] /\ csv_rows[1].player2 = seeds[4]
              /\ csv_rows[2].player1 = seeds[2] /\ csv_rows[2].player2 = seeds[3]
        /\ (/\ Len(csv_rows) >= 3
            /\ csv_rows[1].match_winner = seeds[1]
            /\ csv_rows[2].match_winner = seeds[3]) =>
              /\ csv_rows[3].player1 = seeds[1] /\ csv_rows[3].player2 = seeds[3]
              /\ Len(csv_rows) = 3
              /\ tpc # "raised"
              /\ tpc = "done" => champion = csv_rows[3].match_winner

(***************************************************************************)
(* SpecPort: get_next_port.  Every process that runs matches builds its own *)
(* tournament object (run_single_match_parallel builds one per task, main    *)
(* builds one); run_match asks the object for a port when it is given none.  *)
(***************************************************************************)
InitPort ==
    /\ limits = [p \in Procs |-> DefaultLimits]
    /\ frame = [p \in Procs |-> IdleFrame]
    /\ calls = [p \in Procs |-> 0]
    /\ NoRound
    /\ NoTournament
    /\ NoAllocator
    /\ NoGame
    /\ NoParse
    /\ NoTally
    /\ NoGroup
    /\ NoStaging
    /\ NoOuter
    /\ NoTests

\* EliminationTournament(): a lock and a counter of its own, starting at BASE_PORT
BuildTournament(p) ==
    /\ gpc[p] \in {"none", "returned"}
    /\ calls[p] < MaxCalls
    /\ next_port' = [next_port EXCEPT ![p] = BASE_PORT]
    /\ port_lock' = [port_lock EXCEPT ![p] = 0]
    /\ gpc' = [gpc EXCEPT ![p] = "built"]
    /\ calls' = [calls EXCEPT ![p] = @ + 1]
    /\ UNCHANGED <<tests, outer, staging, group, game, parse, tally, limits, frame, roundVars, tourVars, gport, handed>>

\* run_match(match_info, round_name, match_num) without a port: get_next_port
\* enters 'with self.port_lock'
AcquireLock(p) ==
    /\ gpc[p] \in {"built", "returned"}
    /\ Len(handed) < MaxPortCalls
    /\ port_lock[p] = 0
    /\ port_lock' = [port_lock EXCEPT ![p] = p]
    /\ gpc' = [gpc EXCEPT ![p] = "locked"]
    /\ handed' = Append(handed, [proc |-> p, port |-> 0])
    /\ UNCHANGED <<tests, outer, staging, group, game, parse, tally, limits, frame, calls, roundVars, tourVars, next_port, gport>>

\* port = self.next_port
ReadPort(p) ==
    /\ gpc[p] = "locked"
    /\ gport' = [gport EXCEPT ![p] = next_port[p]]
    /\ gpc' = [gpc EXCEPT ![p] = "read"]
    /\ UNCHANGED <<tests, outer, staging, group, game, parse, tally, limits, frame, calls, roundVars, tourVars, next_port, port_lock, handed>>

\* self.next_port += 1
IncrementPort(p) ==
    /\ gpc[p] = "read"
    /\ next_port' = [next_port EXCEPT ![p] = @ + 1]
    /\ gpc' = [gpc EXCEPT ![p] = "incremented"]
    /\ UNCHANGED <<tests, outer, staging, group, game, parse, tally, limits, frame, calls, roundVars, tourVars, port_lock, gport, handed>>

\* return port: the lock is released, the caller has its port
ReturnPort(p) ==
    /\ gpc[p] = "incremented"
    /\ port_lock' = [port_lock EXCEPT ![p] = 0]
    /\ gpc' = [gpc EXCEPT ![p] = "returned"]
    /\ handed' = [k \in 1..Len(handed) |->
                     IF handed[k].proc = p /\ handed[k].port = 0
                     THEN [proc |-> p, port |-> gport[p]] ELSE handed[k]]
    /\ UNCHANGED <<tests, outer, staging, group, game, parse, tally, limits, frame, calls, roundVars, tourVars, next_port, gport>>

NextPort ==
    \/ \E p \in Procs : BuildTournament(p)
    \/ \E p \in Procs : AcquireLock(p)
    \/ \E p \in Procs : ReadPort(p)
    \/ \E p \in Procs : IncrementPort(p)
    \/ \E p \in Procs : ReturnPort(p)

SpecPort == InitPort /\ [][NextPort]_vars

SmallSeedCounts == {2, 4}

\* position of a round in run_tournament
RoundIndex(r) ==
    CASE r = "Round of 32" -> 1
      [] r = "Round of 16" -> 2
      [] r = "Quarterfinals" -> 3
      [] r = "Semifinals" -> 4
      [] r = "Final" -> 5

InitBracket ==
    /\ limits = [p \in Procs |-> DefaultLimits]
    /\ frame = [p \in Procs |-> IdleFrame]
    /\ calls = [p \in Procs |-> 0]
    /\ NoRound
    /\ NoAllocator
    /\ NoGame
    /\ NoParse
    /\ NoTally
    /\ NoGroup
    /\ NoStaging
    /\ NoOuter
    /\ NoTests
    /\ tpc = "Round of 32"
    /\ \E N \in SmallSeedCounts : seeds = SeedTable(N)
    /\ players = << >>
    /\ csv_rows = << >>
    /\ ports_handed = << >>
    /\ champion = NoPlayer
    /\ p2wins = 0

\* run_tournament pairs the round and calls run_round_parallel, which assigns the
\* ports and opens a pool of new worker processes (they start with the globals
\* of the orchestrator)
BeginRound ==
    /\ tpc \in ParallelRounds
    /\ rpc = "idle"
    /\ Len(players) % 2 = 0
    /\ LET ms == RoundMatches IN
       /\ Len(ms) > 0
       /\ matches' = ms
       /\ args_list' = [i \in 1..Len(ms) |->
                           [match |-> ms[i], match_num |-> i, port |-> PortOf(i)]]
       /\ num_workers' = Min(Len(ms), MAX_PARALLEL_MATCHES)
       /\ job' = [i \in 1..Len(ms) |-> "queued"]
       /\ results_list' = [i \in 1..Len(ms) |-> NoResult]
       /\ ports_handed' = ports_handed \o PortsOfRound(tpc, ms)
    /\ running' = [p \in Procs |-> 0]
    /\ limits' = [p \in Procs |-> limits[0]]
    /\ rpc' = "mapping"
    /\ UNCHANGED <<tests, outer, staging, group, game, parse, tally, frame, calls, winners, all_results, overtaken, portVars,
                   tpc, seeds, players, csv_rows, champion, p2wins>>

\* run_round_parallel has returned: the rows of the round are appended and its
\* winners are the players of the next round
EndRound ==
    /\ tpc \in ParallelRounds
    /\ rpc = "returned"
    /\ players' = winners
    /\ csv_rows' = csv_rows \o
          [i \in 1..Len(all_results) |->
              [round |-> tpc, match_num |-> all_results[i].match_num,
               player1 |-> all_results[i].player1, player2 |-> all_results[i].player2,
               match_winner |-> all_results[i].match_winner]]
    /\ tpc' = RoundAfter(tpc)
    /\ rpc' = "idle"
    /\ matches' = << >>
    /\ args_list' = << >>
    /\ num_workers' = 0
    /\ job' = << >>
    /\ running' = [p \in Procs |-> 0]
    /\ results_list' = << >>
    /\ winners' = << >>
    /\ all_results' = << >>
    /\ overtaken' = FALSE
    /\ UNCHANGED <<tests, outer, staging, group, game, parse, tally, limits, frame, calls, portVars, seeds, ports_handed, champion, p2wins>>

\* run_round_parallel has raised: run_tournament ends with the exception
RoundFails ==
    /\ tpc \in ParallelRounds
    /\ rpc = "raised"
    /\ tpc' = "raised"
    /\ UNCHANGED <<tests, outer, staging, group, game, parse, tally, limits, frame, calls, roundVars, portVars, seeds, players, csv_rows,
                   ports_handed, champion, p2wins>>

\* the pairing of the next round indexes past the end of an odd list of winners
BracketPairingRaises ==
    /\ rpc = "idle"
    /\ PairingRaises

NextBracket ==
    \/ BeginRound
    \/ \E w \in Procs : TakeTask(w)
    \/ \E w \in Procs : FinishMatch(w)
    \/ MapReturn
    \/ MapRaise
    \/ EndRound
    \/ RoundFails
    \/ BracketPairingRaises

SpecBracket == InitBracket /\ [][NextBracket]_vars

(***************************************************************************)
(* Claims about the sequence of rounds (SpecBracket)                        *)
(***************************************************************************)
\* the participants of the seed table
Seeded == {seeds[i] : i \in 1..Len(seeds)}

\* match n of round r has resolved with a winner
Resolved(r, n) ==
    \E k \in 1..Len(csv_rows) :
        /\ csv_rows[k].round = r
        /\ csv_rows[k].match_num = n
        /\ csv_rows[k].match_winner \in Seeded

\* C12: rounds are not pipelined: when a match of a later round has been paired
\* and started, every match of every earlier round has resolved with a winner;
\* the matches in flight are all matches of the round being run.
C12_RoundsNotPipelined ==
    /\ \A i \in 1..Len(ports_handed), j \in 1..Len(ports_handed) :
          RoundIndex(ports_handed[i].round) < RoundIndex(ports_handed[j].round)
          => Resolved(ports_handed[i].round, ports_handed[i].match_num)
    /\ rpc = "mapping" =>
          \A i \in 1..Len(args_list) :
              \E k \in 1..Len(ports_handed) :
                  /\ ports_handed[k].round = tpc
                  /\ ports_handed[k].match_num = args_list[i].match_num
    /\ \A w \in Busy : rpc = "mapping"

\* C12 witness: the match of the second round is running after the two matches of
\* the first round have resolved
C12_Witness ==
    /\ tpc = "Round of 16"
    /\ Busy # {}
    /\ \A n \in 1..2 : Resolved("Round of 32", n)

(***************************************************************************)
(* SpecGame: run_game, the group-stage one (TournamentRunner.run_game) and  *)
(* the elimination one (EliminationTournament.run_game), step by step.  The *)
(* clock counts half seconds, the shortest sleep of the code.               *)
(***************************************************************************)
\* clock ticks of one second
TicksPerSecond == 2

Ticks(seconds) == seconds * TicksPerSecond

\* time.sleep(2) after the server is launched
SettleDelay == 2

\* time.sleep(1) between the two players
PlayerGap == 1

\* connection_timeout of the group-stage run_game
connection_timeout == 30

\* time.sleep(2) of an iteration of the watchdog loop
WatchdogPoll == 2

\* time.sleep(2) after the server ended by itself, time.sleep(5) after the
\* watchdog expired (group stage)
FlushWait == 2

TimeoutFlushWait == 5

\* time.sleep(4) after the port sweep
PortReleaseWait == 4

\* SERVER_TIME_LIMITS of run_tournament.py
GroupServerTimeLimits == [small |-> 120, medium |-> 240, large |-> 360]

\* TIME_LIMITS of run_tournament.py
GroupTimeLimits == [small |-> 300, medium |-> 600, large |-> 900]

\* BOARD_SIZES for TOURNAMENT_MODE = "T1"
BOARD_SIZES == {"small"}

\* mutant: the players are launched first
EntryPcPlayersFirst == "start_player1"

\* run_game begins by launching the server
EntryPc == "start_server"

\* the control point after pc in program order
AfterPc(variant, pc) ==
    CASE pc = "start_server" -> "settle"
      [] pc = "settle" -> "start_player1"
      [] pc = "start_player1" -> "gap"
      [] pc = "gap" -> "start_player2"
      [] pc = "start_player2" -> IF variant = "group" THEN "connect_wait" ELSE "watchdog"
      [] pc = "connect_wait" -> "watchdog"
      [] pc = "watchdog" -> "teardown"
      [] pc = "teardown" -> "stop_player1"
      [] pc = "stop_player1" -> "stop_player2"
      [] pc = "stop_player2" -> "sweep"
      [] pc = "sweep" -> "parse"
      [] pc = "parse" -> "returned"

\* TIME_LIMITS[board_size] as run_game reads it when the watchdog starts
WatchdogBudget(variant, board_size) ==
    IF variant = "group" THEN GroupTimeLimits[board_size] ELSE limits[0].watchdog

\* mutant: the watchdog counts from the beginning of the connect wait
WatchdogStartAtConnect(g) == g.connection_start

\* start_time = time.time() after the connect wait
WatchdogStart(g) == g.clock

\* the watchdog fields of a game that enters the watchdog loop
EnterWatchdog(g) ==
    [g EXCEPT !.pc = "watchdog",
              !.start_time = WatchdogStart(g),
              !.timeout_seconds = WatchdogBudget(g.variant, g.board_size)]

InitGame ==
    /\ limits = [p \in Procs |-> DefaultLimits]
    /\ frame = [p \in Procs |-> IdleFrame]
    /\ calls = [p \in Procs |-> 0]
    /\ NoRound
    /\ NoTournament
    /\ NoAllocator
    /\ NoParse
    /\ NoTally
    /\ NoGroup
    /\ NoStaging
    /\ NoOuter
    /\ NoTests
    /\ \E v \in {"group", "elimination"}, b \in BOARD_SIZES :
          game = [IdleGame EXCEPT !.variant = v, !.board_size = b, !.pc = EntryPc]

\* subprocess.Popen(web_server.py port board_size)
StartServer ==
    /\ game.pc = "start_server"
    /\ game' = [game EXCEPT !.server = "running",
                            !.launched = Append(@, "server"),
                            !.pc = AfterPc(game.variant, game.pc)]
    /\ UNCHANGED <<tests, outer, staging, group, parse, tally, limits, frame, calls, roundVars, tourVars, portVars>>

\* time.sleep(2): nothing is checked when it ends
SettleDelayEnds ==
    /\ game.pc = "settle"
    /\ game' = [game EXCEPT !.clock = @ + Ticks(SettleDelay),
                            !.dead_at_settle = (game.server = "exited"),
                            !.pc = AfterPc(game.variant, game.pc)]
    /\ UNCHANGED <<tests, outer, staging, group, parse, tally, limits, frame, calls, roundVars, tourVars, portVars>>

\* subprocess.Popen(test_bot_student.py player1 ...)
StartPlayer1 ==
    /\ game.pc = "start_player1"
    /\ game' = [game EXCEPT !.player1 = "running",
                            !.launched = Append(@, "player1"),
                            !.pc = AfterPc(game.variant, game.pc)]
    /\ UNCHANGED <<tests, outer, staging, group, parse, tally, limits, frame, calls, roundVars, tourVars, portVars>>

\* time.sleep(1)
PlayerGapEnds ==
    /\ game.pc = "gap"
    /\ game' = [game EXCEPT !.clock = @ + Ticks(PlayerGap),
                            !.pc = AfterPc(game.variant, game.pc)]
    /\ UNCHANGED <<tests, outer, staging, group, parse, tally, limits, frame, calls, roundVars, tourVars, portVars>>

\* subprocess.Popen(test_bot_student.py player2 ...); the group-stage run_game
\* then starts the connect wait, the elimination one the watchdog loop
StartPlayer2 ==
    /\ game.pc = "start_player2"
    /\ LET g == [game EXCEPT !.player2 = "running", !.launched = Append(@, "player2")] IN
       game' = IF AfterPc(g.variant, g.pc) = "connect_wait"
               THEN [g EXCEPT !.pc = "connect_wait", !.connection_start = g.clock]
               ELSE EnterWatchdog(g)
    /\ UNCHANGED <<tests, outer, staging, group, parse, tally, limits, frame, calls, roundVars, tourVars, portVars>>

\* one evaluation of the connect loop: the marker ends it, otherwise it sleeps
\* half a second; after connection_timeout the watchdog is started anyway
ConnectPoll ==
    /\ game.pc = "connect_wait"
    /\ game' =
         IF game.clock - game.connection_start < Ticks(connection_timeout)
         THEN IF game.marker
              THEN EnterWatchdog([game EXCEPT !.both_connected = TRUE,
                                              !.connect_end = game.clock])
              ELSE [game EXCEPT !.clock = @ + 1]
         ELSE EnterWatchdog([game EXCEPT !.connect_end = game.clock])
    /\ UNCHANGED <<tests, outer, staging, group, parse, tally, limits, frame, calls, roundVars, tourVars, portVars>>

\* one evaluation of the watchdog loop: it ends when the server process has
\* ended or when the budget is used up, otherwise it sleeps two seconds
WatchdogPollStep ==
    /\ game.pc = "watchdog"
    /\ game' =
         IF game.clock - game.start_time < Ticks(game.timeout_seconds)
         THEN IF game.server # "running"
              THEN [game EXCEPT !.ended_by = "server_exit",
                                !.watchdog_end = game.clock,
                                !.clock = @ + (IF game.variant = "group"
                                               THEN Ticks(FlushWait) ELSE 0),
                                !.pc = AfterPc(game.variant, game.pc)]
              ELSE [game EXCEPT !.clock = @ + Ticks(WatchdogPoll)]
         ELSE [game EXCEPT !.ended_by = "watchdog",
                           !.watchdog_end = game.clock,
                           !.clock = @ + (IF game.variant = "group"
                                          THEN Ticks(TimeoutFlushWait) ELSE 0),
                           !.pc = AfterPc(game.variant, game.pc)]
    /\ UNCHANGED <<tests, outer, staging, group, parse, tally, limits, frame, calls, roundVars, tourVars, portVars>>

\* the process the cleanup loop handles at a control point
TeardownTarget(pc) ==
    CASE pc = "teardown" -> "server"
      [] pc = "stop_player1" -> "player1"
      [] pc = "stop_player2" -> "player2"

\* mutant: a running process is killed at once
StopOutcomesKillFirst(variant, status) ==
    IF status = "running"
    THEN {[status |-> "killed", how |-> "kill"]}
    ELSE {[status |-> status, how |-> IF variant = "group" THEN "none" ELSE "terminate"]}

\* mutant: the cleanup loop leaves the process alone
StopOutcomesLeaveRunning(variant, status) == {[status |-> status, how |-> "none"]}

\* what one iteration of the cleanup loop does to a process: terminate() and a
\* bounded wait; kill() only when the wait timed out.  The group-stage loop
\* leaves a process that has ended alone, the elimination loop calls
\* terminate() on it, which does nothing
StopOutcomes(variant, status) ==
    IF status = "running"
    THEN {[status |-> "terminated", how |-> "terminate"],
          [status |-> "killed", how |-> "terminate_then_kill"]}
    ELSE {[status |-> status, how |-> IF variant = "group" THEN "none" ELSE "terminate"]}

\* one iteration of the cleanup loop over server, player1, player2
Teardown ==
    /\ game.pc \in {"teardown", "stop_player1", "stop_player2"}
    /\ LET k == TeardownTarget(game.pc) IN
       \E o \in StopOutcomes(game.variant, game[k]) :
          game' = [game EXCEPT ![k] = o.status,
                               !.stop[k] = o.how,
                               !.pc = AfterPc(game.variant, game.pc)]
    /\ UNCHANGED <<tests, outer, staging, group, parse, tally, limits, frame, calls, roundVars, tourVars, portVars>>

\* the pkill sweep and time.sleep(4); the elimination run_game does not catch
\* the TimeoutExpired of a sweep command
PortSweep ==
    /\ game.pc = "sweep"
    /\ \/ game' = [game EXCEPT !.clock = @ + Ticks(PortReleaseWait),
                               !.swept = TRUE,
                               !.pc = AfterPc(game.variant, game.pc)]
       \/ /\ game.variant = "elimination"
          /\ game' = [game EXCEPT !.pc = "raised"]
    /\ UNCHANGED <<tests, outer, staging, group, parse, tally, limits, frame, calls, roundVars, tourVars, portVars>>

\* parse_game_result on the logs, run_game returns
ParseLogs ==
    /\ game.pc = "parse"
    /\ game' = [game EXCEPT !.pc = AfterPc(game.variant, game.pc)]
    /\ UNCHANGED <<tests, outer, staging, group, parse, tally, limits, frame, calls, roundVars, tourVars, portVars>>

\* the server process ends by itself (game over, crash, port in use)
ServerExits ==
    /\ game.server = "running"
    /\ game.pc \in {"settle", "start_player1", "gap", "start_player2", "connect_wait",
                    "watchdog"}
    /\ game' = [game EXCEPT !.server = "exited"]
    /\ UNCHANGED <<tests, outer, staging, group, parse, tally, limits, frame, calls, roundVars, tourVars, portVars>>

\* the server writes a line the connect loop takes for the marker
MarkerLogged ==
    /\ game.server = "running"
    /\ game.pc = "connect_wait"
    /\ ~game.marker
    /\ game' = [game EXCEPT !.marker = TRUE]
    /\ UNCHANGED <<tests, outer, staging, group, parse, tally, limits, frame, calls, roundVars, tourVars, portVars>>

NextGame ==
    \/ StartServer
    \/ SettleDelayEnds
    \/ StartPlayer1
    \/ PlayerGapEnds
    \/ StartPlayer2
    \/ ConnectPoll
    \/ WatchdogPollStep
    \/ Teardown
    \/ PortSweep
    \/ ParseLogs
    \/ ServerExits
    \/ MarkerLogged

SpecGame == InitGame /\ [][NextGame]_vars

(***************************************************************************)
(* Claims about run_game (SpecGame)                                         *)
(***************************************************************************)
\* C18: in every game the server process is launched before either player
\* process and player 1 before player 2; no player process of a game exists
\* before the game's server was launched.
C18_ServerThenPlayer1ThenPlayer2 ==
    /\ \E n \in 0..3 : game.launched = SubSeq(<<"server", "player1", "player2">>, 1, n)
    /\ game.player1 # "none" => game.server # "none"
    /\ game.player2 # "none" => game.player1 # "none"

\* C18 witness: the three processes of a game have been launched
C18_Witness ==
    /\ Len(game.launched) = 3
    /\ game.player2 = "running"

\* C19: if the server process has already exited when the settle delay after
\* its launch ends, the game is terminated with a server-start failure: no
\* player process is launched and neither the connect wait nor the watchdog
\* phase is entered.
C19_DeadServerStopsGame ==
    game.dead_at_settle =>
        /\ game.player1 = "none"
        /\ game.player2 = "none"
        /\ game.pc \notin {"gap", "start_player2", "connect_wait", "watchdog"}

\* C20: in the group-stage run_game, when the marker is not seen within the
\* connect timeout the game is not aborted: the watchdog phase starts when the
\* connect wait ends, with the full watchdog budget of the board counted from
\* that moment, and it does not expire before that budget has passed.
C20_WatchdogAfterConnectTimeout ==
    (/\ game.variant = "group"
     /\ game.pc \in {"watchdog", "teardown", "stop_player1", "stop_player2", "sweep",
                     "parse", "returned"}
     /\ ~game.both_connected) =>
        /\ game.connect_end - game.connection_start >= Ticks(connection_timeout)
        /\ game.start_time = game.connect_end
        /\ game.timeout_seconds = GroupTimeLimits[game.board_size]
        /\ game.pc = "watchdog" => (game.player1 = "running" /\ game.player2 = "running")
        /\ game.ended_by = "watchdog" =>
              game.watchdog_end - game.connect_end >= Ticks(GroupTimeLimits[game.board_size])

\* C20 witness: a group-stage game whose players never connected has run its
\* watchdog to the end and returned
C20_Witness ==
    /\ game.variant = "group"
    /\ game.pc = "returned"
    /\ ~game.both_connected
    /\ game.ended_by = "watchdog"

(***************************************************************************)
(* Claims about the time limits in force when a game is launched (Spec)     *)
(***************************************************************************)
\* C21: at every launch of a game, in every stage and for every board size,
\* the watchdog timeout in force (TIME_LIMITS) is strictly larger than the
\* per-player server time budget in force (SERVER_TIME_LIMITS): in the
\* elimination script for the values a process holds at any moment and for the
\* values every launched game has read, in the group-stage script for every
\* board size of its two tables.
C21_WatchdogAboveServerBudget ==
    /\ \A p \in Procs :
          /\ limits[p].watchdog > limits[p].server
          /\ frame[p].games > 0 => frame[p].timeout > frame[p].server_limit
    /\ \A b \in {"small", "medium", "large"} :
          GroupTimeLimits[b] > GroupServerTimeLimits[b]

\* C21 witness: a game of tiebreaker battle 2 has been launched by a match
\* that was entered with the limits a failed tiebreak had left behind
C21_Witness ==
    \E p \in Procs :
        /\ frame[p].entry # DefaultLimits
        /\ StageOf(frame[p].game) = "TB2"
        /\ frame[p].timeout = TB2Limits.watchdog
        /\ frame[p].server_limit = TB2Limits.server

\* the control points of run_game after the watchdog loop
AfterWatchdog == {"teardown", "stop_player1", "stop_player2", "sweep", "parse", "returned",
                  "raised"}

\* C22: run_game always terminates: whatever the server and the players do, the
\* waits end at most connect timeout plus watchdog timeout after they began
\* (the group-stage run_game then sleeps a fixed 2 or 5 seconds), no process of
\* the game is launched a second time, and after the teardown the result is
\* parsed from whatever the logs contain: run_game does not end without it.
C22_BoundedWaitsThenParse ==
    /\ game.pc \in AfterWatchdog =>
          /\ game.watchdog_end - game.start_time <= Ticks(game.timeout_seconds)
          /\ game.variant = "group" =>
                game.watchdog_end - game.connection_start
                   <= Ticks(connection_timeout + GroupTimeLimits[game.board_size])
    /\ Len(game.launched) <= 3
    /\ \A i \in 1..Len(game.launched), j \in 1..Len(game.launched) :
          i # j => game.launched[i] # game.launched[j]
    /\ game.pc # "raised"

FinalScores == {40, 55}

Tails == {"short", "traceback", "bot_finished", "plain"}

\* every content of an existing log file
AllLogs ==
    [exists : {TRUE}, timeout : BOOLEAN, repetition : BOOLEAN,
     invalid : {"", "circle", "square"}, turn_limit : BOOLEAN,
     game_finished : BOOLEAN, winner : {"", "circle", "square"},
     score : {<< >>} \cup (FinalScores \X FinalScores), tail : Tails]

\* the log has none of the markers that open a block of the group-stage parser
Blockless(log) ==
    /\ ~log.timeout
    /\ ~log.repetition
    /\ log.invalid = ""
    /\ ~log.turn_limit
    /\ ~log.game_finished
    /\ log.winner = ""

\* the server logs considered: every combination of markers; an error line or the
\* bot's last line only in a log without block markers
ServerLogs ==
    {log \in AllLogs : log.tail \in {"short", "plain"} \/ Blockless(log)} \cup {NoLog}

\* the player logs considered: the server's own announcements (timeout, repetition,
\* turn limit, 'Game finished') do not appear in them
PlayerLogs ==
    {log \in AllLogs :
        /\ ~log.timeout /\ ~log.repetition /\ ~log.turn_limit /\ ~log.game_finished
        /\ log.tail = "plain" \/ Blockless(log)} \cup {NoLog}

\* score_match is not None
HasScore(log) == log.score # << >>

\* 'circle' if circle_score > square_score else 'square' if ... else 'draw'
WinnerByScores(c, s) == ScoredResult(c, s).winner

\* the local variables of the group-stage parser before its loop
ScanStart ==
    [winner |-> "none", circle_score |-> NoScore, square_score |-> NoScore,
     error |-> "", termination_reason |-> "", done |-> FALSE]

\* circle_score, square_score = the two groups of score_match
WithScores(st, log) ==
    [st EXCEPT !.circle_score = log.score[1], !.square_score = log.score[2]]

\* if 'Timeout' in content ...
TimeoutBlock(st, log) ==
    IF st.done \/ ~log.timeout THEN st
    ELSE IF HasScore(log)
         THEN [WithScores(st, log) EXCEPT
                  !.winner = WinnerByScores(log.score[1], log.score[2]),
                  !.termination_reason = "",
                  !.done = TRUE]
         ELSE [st EXCEPT !.termination_reason = "Timeout (no scores)"]

\* if 'REPETITION DETECTED' in content ...
RepetitionBlock(st, log) ==
    IF st.done \/ ~log.repetition THEN st
    ELSE LET a == [st EXCEPT !.termination_reason = "Repetition (3-move rule)",
                             !.winner = IF log.winner # "" THEN log.winner ELSE @]
         IN  IF HasScore(log) THEN [WithScores(a, log) EXCEPT !.done = TRUE] ELSE a

\* if 'INVALID MOVE' in content ...
InvalidMoveBlock(st, log) ==
    IF st.done \/ log.invalid = "" THEN st
    ELSE LET a == IF log.invalid = "circle"
                  THEN [st EXCEPT !.winner = "square",
                                  !.circle_score = 0, !.square_score = 100]
                  ELSE [st EXCEPT !.winner = "circle",
                                  !.circle_score = 100, !.square_score = 0]
             b == IF HasScore(log) THEN WithScores(a, log) ELSE a
         IN  [b EXCEPT !.termination_reason = "Invalid move", !.done = TRUE]

\* if 'Turn limit' in content ...
TurnLimitBlock(st, log) ==
    IF st.done \/ ~log.turn_limit THEN st
    ELSE LET a == [st EXCEPT !.termination_reason = "Turn limit (1000 turns)"]
         IN  IF HasScore(log)
             THEN [WithScores(a, log) EXCEPT
                      !.winner = WinnerByScores(log.score[1], log.score[2]),
                      !.done = TRUE]
             ELSE a

\* if 'Game finished' in content or 'Game Over' in content or 'Winner:' in content
CompletionBlock(st, log) ==
    IF st.done \/ ~(log.game_finished \/ log.winner # "") THEN st
    ELSE LET w1 == IF st.winner = "none" /\ log.winner # "" THEN log.winner
                   ELSE st.winner
             w2 == IF w1 = "none" THEN WinnerByScores(log.score[1], log.score[2])
                   ELSE w1
         IN  IF HasScore(log)
             THEN [WithScores(st, log) EXCEPT
                      !.winner = w2,
                      !.termination_reason =
                          IF w2 # "draw" THEN "Normal (win condition met)"
                          ELSE "Normal (completed)",
                      !.done = TRUE]
             ELSE [st EXCEPT !.winner = w1]

\* one pass of the loop body over a log: the five blocks in program order
ScanLog(st, log) ==
    CompletionBlock(
        TurnLimitBlock(
            InvalidMoveBlock(
                RepetitionBlock(TimeoutBlock(st, log), log), log), log), log)

\* logs_to_check: the server log first, then the player log, each if it exists
LogsToCheck(server_log, player_log) ==
    SelectSeq(<<server_log, player_log>>, LAMBDA log : log.exists)

\* for log_type, log_path in logs_to_check: ... break
RECURSIVE ScanLogs(_, _)
ScanLogs(st, logs) ==
    IF logs = << >> \/ st.done THEN st
    ELSE ScanLogs(ScanLog(st, Head(logs)), Tail(logs))

\* the last resort, one log: too short, finished without a clear result, incomplete
LastResortLog(st, log) ==
    IF log.tail = "short"
    THEN [st EXCEPT !.error = "Log too short - process may have crashed",
                    !.termination_reason = "Error: Process crashed"]
    ELSE IF log.tail = "bot_finished" \/ log.game_finished
    THEN LET a == [st EXCEPT !.termination_reason =
                                "Completed (check server log for details)"]
         IN  IF HasScore(log)
             THEN [WithScores(a, log) EXCEPT
                      !.winner = WinnerByScores(log.score[1], log.score[2])]
             ELSE a
    ELSE [st EXCEPT !.error = "Game did not complete",
                    !.termination_reason = "Incomplete"]

\* the last resort goes over every log, without break
RECURSIVE LastResort(_, _)
LastResort(st, logs) ==
    IF logs = << >> THEN st
    ELSE LastResort(LastResortLog(st, Head(logs)), Tail(logs))

\* if not winner and not termination_reason: error patterns, then the last resort
ErrorCheck(st, logs) ==
    IF st.winner # "none" \/ st.termination_reason # "" THEN st
    ELSE IF \E i \in 1..Len(logs) : logs[i].tail = "traceback"
    THEN [st EXCEPT !.error = "Traceback", !.termination_reason = "Error: Traceback"]
    ELSE LastResort(st, logs)

\* TournamentRunner.parse_game_result(log_file, server_log_file)
GroupParseGameResult(log_file, server_log_file) ==
    LET logs == LogsToCheck(server_log_file, log_file)
        st == ErrorCheck(ScanLogs(ScanStart, logs), logs)
    IN  IF logs = << >>
        THEN [NothingParsed EXCEPT !.error = "No log files found"]
        ELSE [winner |-> st.winner,
              circle_score |-> st.circle_score,
              square_score |-> st.square_score,
              error |-> IF st.error # "" THEN st.error ELSE st.termination_reason]

\* mutant: the parser reports no error when it found no winner
NoResultFoundSilent(winner) == ""

\* error = None if winner else "No result found"
NoResultFound(winner) == IF winner # "none" THEN "" ELSE "No result found"

\* the loop body of the elimination parser: the final-score record ends the loop,
\* a 'Winner:' line sets the winner and the loop goes on
EliminationScanLog(st, log) ==
    IF HasScore(log)
    THEN [WithScores(st, log) EXCEPT
             !.winner = WinnerByScores(log.score[1], log.score[2]),
             !.done = TRUE]
    ELSE IF log.winner # "" THEN [st EXCEPT !.winner = log.winner]
    ELSE st

\* for log_path in logs_to_check: ... break
RECURSIVE EliminationScanLogs(_, _)
EliminationScanLogs(st, logs) ==
    IF logs = << >> \/ st.done THEN st
    ELSE EliminationScanLogs(EliminationScanLog(st, Head(logs)), Tail(logs))

\* EliminationTournament.parse_game_result(player1_log, server_log)
EliminationParseGameResult(player1_log, server_log) ==
    LET st == EliminationScanLogs(ScanStart, LogsToCheck(server_log, player1_log))
    IN  [winner |-> st.winner,
         circle_score |-> st.circle_score,
         square_score |-> st.square_score,
         error |-> NoResultFound(st.winner)]

\* the two log files of a game that has ended, and the parser that will read them
InitParse ==
    /\ limits = [p \in Procs |-> DefaultLimits]
    /\ frame = [p \in Procs |-> IdleFrame]
    /\ calls = [p \in Procs |-> 0]
    /\ NoRound
    /\ NoTournament
    /\ NoAllocator
    /\ NoGame
    /\ NoTally
    /\ NoGroup
    /\ NoStaging
    /\ NoOuter
    /\ NoTests
    /\ \E v \in {"group", "elimination"}, sl \in ServerLogs, pl \in PlayerLogs :
          parse = [IdleParse EXCEPT !.pc = "logs", !.variant = v,
                                    !.server_log = sl, !.player_log = pl]

\* return self.parse_game_result(log_file, server_log_file)
ParseGroupStage ==
    /\ parse.pc = "logs"
    /\ parse.variant = "group"
    /\ parse' = [parse EXCEPT
                    !.result = GroupParseGameResult(parse.player_log, parse.server_log),
                    !.pc = "returned"]
    /\ UNCHANGED <<tests, outer, staging, group, game, tally, limits, frame, calls, roundVars, tourVars, portVars>>

\* winner, circle_score, square_score, error = self.parse_game_result(...)
ParseElimination ==
    /\ parse.pc = "logs"
    /\ parse.variant = "elimination"
    /\ parse' = [parse EXCEPT
                    !.result = EliminationParseGameResult(parse.player_log,
                                                          parse.server_log),
                    !.pc = "returned"]
    /\ UNCHANGED <<tests, outer, staging, group, game, tally, limits, frame, calls, roundVars, tourVars, portVars>>

NextParse ==
    \/ ParseGroupStage
    \/ ParseElimination

SpecParse == InitParse /\ [][NextParse]_vars

\* the log carries a final-score record and nothing else the parsers look for
ScoreOnly(log) ==
    /\ log.exists
    /\ HasScore(log)
    /\ Blockless(log)
    /\ log.tail \in {"short", "plain"}

\* the reasons that stand for a normal end of the game
NormalReasons == {"", "Normal (win condition met)", "Normal (completed)"}

\* C24: for a server log whose only recognizable content is a final-score record
\* with scores c and s, each parser returns the scores (c, s), the winner circle if
\* c > s, square if s > c and draw if c = s, and no error (a normal reason); with
\* 55 and 40 the winner is circle.
C24_ScoreOnlyServerLog ==
    (parse.pc = "returned" /\ ScoreOnly(parse.server_log)) =>
        /\ parse.result.circle_score = parse.server_log.score[1]
        /\ parse.result.square_score = parse.server_log.score[2]
        /\ parse.result.winner =
              WinnerByScores(parse.server_log.score[1], parse.server_log.score[2])
        /\ parse.result.error \in NormalReasons
        /\ parse.server_log.score = <<55, 40>> => parse.result.winner = "circle"

\* C25: the final-score rule has priority over every other rule: when the log
\* examined first carries a final-score record next to repetition, winner,
\* invalid-move or turn-limit markers, the parser returns these scores and the winner
\* obtained by comparing them (draw when equal); and a returned winner of circle or
\* square always agrees with the returned scores.
C25_FinalScoreRuleFirst ==
    parse.pc = "returned" =>
        /\ (parse.server_log.exists /\ HasScore(parse.server_log)
                /\ ~Blockless(parse.server_log)) =>
              /\ parse.result.circle_score = parse.server_log.score[1]
              /\ parse.result.square_score = parse.server_log.score[2]
              /\ parse.result.winner =
                    WinnerByScores(parse.server_log.score[1], parse.server_log.score[2])
        /\ (parse.result.winner \in {"circle", "square"}
                /\ parse.result.circle_score # NoScore) =>
              parse.result.winner =
                  WinnerByScores(parse.result.circle_score, parse.result.square_score)

\* the log names the side that made an invalid move and carries no final-score record
InvalidMoveOnly(log) == log.exists /\ log.invalid # "" /\ ~HasScore(log)

\* C26: for a log with 'INVALID MOVE by circle' and no final-score record the parser
\* returns winner square with scores circle 0 and square 100 and an invalid-move
\* reason, and for 'INVALID MOVE by square' winner circle with scores (100, 0); the
\* group-stage parser and the elimination parser both do so.
C26_InvalidMovePenalty ==
    (parse.pc = "returned" /\ InvalidMoveOnly(parse.server_log)) =>
        /\ parse.result.error = "Invalid move"
        /\ parse.server_log.invalid = "circle" =>
              /\ parse.result.winner = "square"
              /\ parse.result.circle_score = 0
              /\ parse.result.square_score = 100
        /\ parse.server_log.invalid = "square" =>
              /\ parse.result.winner = "circle"
              /\ parse.result.circle_score = 100
              /\ parse.result.square_score = 0

\* the log is absent or carries nothing the main loops of the parsers look for
Unmarked(log) == ~log.exists \/ (Blockless(log) /\ ~HasScore(log))

\* some existing log states the winner w: by a 'Winner:' line, by a final-score
\* record, or by naming the other side as the one that made an invalid move
Stated(w) ==
    \E log \in {parse.server_log, parse.player_log} :
        /\ log.exists
        /\ \/ log.winner = w
           \/ HasScore(log) /\ WinnerByScores(log.score[1], log.score[2]) = w
           \/ log.invalid # "" /\ log.invalid # w /\ w \in {"circle", "square"}

\* C27: for logs with no recognizable marker (empty logs and logs under 50
\* characters included) the parser returns an unset winner and unset scores with a
\* non-empty error or reason; and no parser returns a winner that no log states.
C27_NoMarkerNoWinner ==
    parse.pc = "returned" =>
        /\ (Unmarked(parse.server_log) /\ Unmarked(parse.player_log)) =>
              /\ parse.result.winner = "none"
              /\ parse.result.circle_score = NoScore
              /\ parse.result.square_score = NoScore
              /\ parse.result.error # ""
        /\ parse.result.winner # "none" => Stated(parse.result.winner)

\* both parsers have returned for a server log under 50 characters without markers
C27_Witness ==
    /\ parse.pc = "returned"
    /\ parse.server_log.exists
    /\ parse.server_log.tail = "short"
    /\ Unmarked(parse.server_log)
    /\ Unmarked(parse.player_log)
    /\ parse.result.error \in {"Log too short - process may have crashed",
                               "No result found"}

\* what the parser of the given variant returns for the server log alone
ServerAlone(variant, server_log) ==
    IF variant = "group" THEN GroupParseGameResult(NoLog, server_log)
    ELSE EliminationParseGameResult(NoLog, server_log)

\* C28: when both logs exist and the server log alone yields a winner, the parser
\* returns that winner whatever the player log contains; the player log decides only
\* when the server log yields none.
C28_ServerLogDecides ==
    (/\ parse.pc = "returned"
     /\ parse.server_log.exists
     /\ parse.player_log.exists
     /\ ServerAlone(parse.variant, parse.server_log).winner # "none") =>
        parse.result.winner = ServerAlone(parse.variant, parse.server_log).winner

(***************************************************************************)
(* The scores run_match records from a pair of role-swapped games: the     *)
(* per-game entries and the totals of the normal pair (both scripts), the  *)
(* stage scores of the two tiebreaker battles (elimination bracket).       *)
(***************************************************************************)
\* the pairs of games whose scores are recorded, by script and stage
ScoredPairs ==
    {<<"group", "small">>, <<"elimination", "small">>,
     <<"elimination", "tiebreaker1">>, <<"elimination", "tiebreaker2">>}

\* circle_score_g1 if circle_score_g1 is not None else ''
CellOf(score) == IF score # NoScore THEN score ELSE EmptyCell

\* (tb1_circle_g1 or 0)
OrZero(score) == IF score # NoScore /\ score # 0 THEN score ELSE 0

\* (circle_score_g1 if circle_score_g1 is not None else 0)
ElseZero(score) == IF score # NoScore THEN score ELSE 0

\* the value is a number read from a log
Known(v) == v \notin {NoScore, EmptyCell}

InitTally ==
    /\ limits = [p \in Procs |-> DefaultLimits]
    /\ frame = [p \in Procs |-> IdleFrame]
    /\ calls = [p \in Procs |-> 0]
    /\ NoRound
    /\ NoTournament
    /\ NoAllocator
    /\ NoGame
    /\ NoParse
    /\ NoGroup
    /\ NoStaging
    /\ NoOuter
    /\ NoTests
    /\ \E sp \in ScoredPairs :
          tally = [IdleTally EXCEPT !.pc = "game1", !.script = sp[1], !.stage = sp[2]]

\* game 1 returns: player1 was circle, player2 was square
TallyGame1 ==
    /\ tally.pc = "game1"
    /\ \E o \in GameResults :
          tally' =
              IF tally.stage = "small"
              THEN [tally EXCEPT
                       !.pc = "game2", !.game1 = o,
                       !.game1_player1_score = CellOf(o.circle_score),
                       !.game1_player2_score = CellOf(o.square_score),
                       !.p1_score = IF tally.script = "elimination"
                                    THEN AddScore(@, o.circle_score) ELSE @,
                       !.p2_score = IF tally.script = "elimination"
                                    THEN AddScore(@, o.square_score) ELSE @]
              ELSE [tally EXCEPT !.pc = "game2", !.game1 = o]
    /\ UNCHANGED <<tests, outer, staging, group, game, parse, limits, frame, calls, roundVars, tourVars, portVars>>

\* game 2 returns: player2 was circle, player1 was square; the totals are stored
TallyGame2 ==
    /\ tally.pc = "game2"
    /\ \E o \in GameResults :
          tally' =
              IF tally.stage = "small"
              THEN [tally EXCEPT
                       !.pc = "recorded", !.game2 = o,
                       !.game2_player1_score = CellOf(o.square_score),
                       !.game2_player2_score = CellOf(o.circle_score),
                       !.p1_score =
                           IF tally.script = "elimination"
                           THEN AddScore(@, o.square_score)
                           ELSE ElseZero(tally.game1.circle_score)
                                    + ElseZero(o.square_score),
                       !.p2_score =
                           IF tally.script = "elimination"
                           THEN AddScore(@, o.circle_score)
                           ELSE ElseZero(tally.game1.square_score)
                                    + ElseZero(o.circle_score)]
              ELSE [tally EXCEPT
                       !.pc = "recorded", !.game2 = o,
                       !.p1_score = OrZero(tally.game1.circle_score)
                                        + OrZero(o.square_score),
                       !.p2_score = OrZero(tally.game1.square_score)
                                        + OrZero(o.circle_score)]
    /\ UNCHANGED <<tests, outer, staging, group, game, parse, limits, frame, calls, roundVars, tourVars, portVars>>

NextTally ==
    \/ TallyGame1
    \/ TallyGame2

SpecTally == InitTally /\ [][NextTally]_vars

\* C29: a score that could not be read is never turned into the number 0: when the
\* score of a game for a player is unset, the per-game entry made from it is not a
\* number, and neither is the total of the pair (the per-match total score, the
\* tiebreak stage score) it would have entered.
C29_UnsetScoreStaysUnknown ==
    tally.pc = "recorded" =>
        /\ tally.stage = "small" =>
              /\ tally.game1.circle_score = NoScore => ~Known(tally.game1_player1_score)
              /\ tally.game1.square_score = NoScore => ~Known(tally.game1_player2_score)
              /\ tally.game2.square_score = NoScore => ~Known(tally.game2_player1_score)
              /\ tally.game2.circle_score = NoScore => ~Known(tally.game2_player2_score)
        /\ (tally.game1.circle_score = NoScore \/ tally.game2.square_score = NoScore) =>
              ~Known(tally.p1_score)
        /\ (tally.game1.square_score = NoScore \/ tally.game2.circle_score = NoScore) =>
              ~Known(tally.p2_score)

\* some match of the round in progress has ended with an exception
SomeMatchRaised == \E i \in 1..Len(job) : job[i] = "failed"

\* C30: when running one match of a round raises an error, the round is not aborted:
\* run_round_parallel does not end with the exception and run_tournament goes on to
\* the results of the round and to the pairing of the next one.
C30_MatchErrorKeepsRound ==
    SomeMatchRaised => (rpc # "raised" /\ tpc # "raised")

(***************************************************************************)
(* The group stage (run_tournament.py): run_tournament plays every pair of *)
(* submissions once, run_match plays the two games of a pair, one row is   *)
(* appended to the CSV file after each match.  A row is kept as the match  *)
(* it belongs to; the entries of the match in progress are kept in full.   *)
(***************************************************************************)
\* the numbers of submissions of a group
GroupSizes == {2, 3, 4}

\* list(combinations(self.submissions, 2)): the pairs in lexicographic order
Combinations(n) ==
    LET pairs == {p \in (1..n) \X (1..n) : p[1] < p[2]}
        rank(p) == Cardinality({q \in pairs :
                                   q[1] < p[1] \/ (q[1] = p[1] /\ q[2] < p[2])}) + 1
    IN  [k \in 1..Cardinality(pairs) |-> CHOOSE p \in pairs : rank(p) = k]

\* mutant: a game that crashed is stored like a drawn game with scores 0
GameCrashedAsDraw ==
    [winner |-> "draw", player1_score |-> 0, player2_score |-> 0, error |-> ""]

\* except Exception as e: winner 'error', scores None, error "Exception: ..."
GameCrashed ==
    [winner |-> "error", player1_score |-> EmptyCell, player2_score |-> EmptyCell,
     error |-> "Exception"]

\* the entries stored for a game: winner or 'error', the two scores or ''; role is
\* the role player1 had in the game
GameEntry(o, role) ==
    IF o = Raise THEN GameCrashed
    ELSE [winner |-> IF o.winner = "none" THEN "error" ELSE o.winner,
          player1_score |-> CellOf(IF role = "circle" THEN o.circle_score
                                   ELSE o.square_score),
          player2_score |-> CellOf(IF role = "circle" THEN o.square_score
                                   ELSE o.circle_score),
          error |-> "run_game"]

\* the for loop of run_tournament goes to the next match, or ends
NextMatch(g) ==
    IF g.match_num < Len(g.matches)
    THEN [g EXCEPT !.pc = "setup", !.match_num = @ + 1,
                   !.game1 = NoEntry, !.game2 = NoEntry, !.crashed = {}]
    ELSE [g EXCEPT !.pc = "done", !.game1 = NoEntry, !.game2 = NoEntry,
                   !.crashed = {}]

\* the exception leaves run_match and is caught in the loop of run_tournament
Escapes(g) == NextMatch([g EXCEPT !.escaped = @ \cup {g.match_num}])

\* the header has been written, the loop is at its first match
InitGroup ==
    /\ limits = [p \in Procs |-> DefaultLimits]
    /\ frame = [p \in Procs |-> IdleFrame]
    /\ calls = [p \in Procs |-> 0]
    /\ NoRound
    /\ NoTournament
    /\ NoAllocator
    /\ NoGame
    /\ NoParse
    /\ NoTally
    /\ NoStaging
    /\ NoOuter
    /\ NoTests
    /\ \E n \in GroupSizes :
          group = [IdleGroup EXCEPT !.pc = "setup", !.submissions = n,
                                    !.matches = Combinations(n), !.match_num = 1]

\* setup_match_directory returns
GroupSetupMatch ==
    /\ group.pc = "setup"
    /\ group' = [group EXCEPT !.pc = "game1"]
    /\ UNCHANGED <<tests, outer, staging, game, parse, tally, limits, frame, calls, roundVars, tourVars, portVars>>

\* setup_match_directory raises (mkdir, copy2, copytree)
GroupSetupRaises ==
    /\ group.pc = "setup"
    /\ group' = Escapes(group)
    /\ UNCHANGED <<tests, outer, staging, game, parse, tally, limits, frame, calls, roundVars, tourVars, portVars>>

\* game 1 inside its try: run_game returns or raises
GroupGame1 ==
    /\ group.pc = "game1"
    /\ \E o \in GameOutcomes :
          group' = [group EXCEPT !.game1 = GameEntry(o, "circle"), !.pc = "game2",
                                 !.crashed = IF o = Raise THEN @ \cup {1} ELSE @]
    /\ UNCHANGED <<tests, outer, staging, game, parse, tally, limits, frame, calls, roundVars, tourVars, portVars>>

\* game 2 inside its try: run_game returns or raises
GroupGame2 ==
    /\ group.pc = "game2"
    /\ \E o \in GameOutcomes :
          group' = [group EXCEPT !.game2 = GameEntry(o, "square"), !.pc = "summary",
                                 !.crashed = IF o = Raise THEN @ \cup {2} ELSE @]
    /\ UNCHANGED <<tests, outer, staging, game, parse, tally, limits, frame, calls, roundVars, tourVars, portVars>>

\* create_match_summary returns, run_match returns the results dict
GroupSummary ==
    /\ group.pc = "summary"
    /\ group' = [group EXCEPT !.pc = "write"]
    /\ UNCHANGED <<tests, outer, staging, game, parse, tally, limits, frame, calls, roundVars, tourVars, portVars>>

\* create_match_summary raises (open, write)
GroupSummaryRaises ==
    /\ group.pc = "summary"
    /\ group' = Escapes(group)
    /\ UNCHANGED <<tests, outer, staging, game, parse, tally, limits, frame, calls, roundVars, tourVars, portVars>>

\* writer.writerow(results): the row of the match is appended
GroupWriteRow ==
    /\ group.pc = "write"
    /\ group' = NextMatch([group EXCEPT !.csv = Append(@, group.match_num)])
    /\ UNCHANGED <<tests, outer, staging, game, parse, tally, limits, frame, calls, roundVars, tourVars, portVars>>

NextGroup ==
    \/ GroupSetupMatch
    \/ GroupSetupRaises
    \/ GroupGame1
    \/ GroupGame2
    \/ GroupSummary
    \/ GroupSummaryRaises
    \/ GroupWriteRow

SpecGroup == InitGroup /\ [][NextGroup]_vars

\* the rows of elimination_results.csv that belong to match m of round r
RowsOfMatch(r, m) ==
    {j \in 1..Len(csv_rows) : csv_rows[j].round = r /\ csv_rows[j].match_num = m}

\* C31: after a tournament run has ended, the table holds exactly one row for every
\* match that was scheduled, the matches that ended with an error included: N - 1
\* rows for a bracket of N participants.
C31_OneRowPerScheduledMatch ==
    tpc \in {"done", "raised"} =>
        /\ \A i \in 1..Len(ports_handed) :
              Cardinality(RowsOfMatch(ports_handed[i].round,
                                      ports_handed[i].match_num)) = 1
        /\ tpc = "done" => Len(csv_rows) = Len(seeds) - 1

\* C32: if the orchestrator stops in the middle of a round, every match that had
\* completed by then already has its row in the table: at every moment each match of
\* the round in progress whose run_match has returned has a row.
C32_CompletedMatchHasRow ==
    \A i \in 1..Len(job) : job[i] = "done" => RowsOfMatch(tpc, i) # {}

\* C33: the champion record is written once, only after the final has resolved and
\* its row has been appended to the table; the champion is the match winner of the
\* final and a participant of the seed table, as the seed table has it.
C33_ChampionWrittenOnceAfterFinal ==
    [][champion' # champion =>
          /\ champion = NoPlayer
          /\ csv_rows # << >>
          /\ csv_rows' = csv_rows
          /\ csv_rows[Len(csv_rows)].round = "Final"
          /\ champion' = csv_rows[Len(csv_rows)].match_winner
          /\ champion' \in Seeded]_vars

\* the champion of a 32-seed bracket has been written
C33_Witness ==
    /\ tpc = "done"
    /\ Len(seeds) = 32
    /\ champion \in Seeded
    /\ csv_rows[Len(csv_rows)].round = "Final"

(***************************************************************************)
(* Staging: setup_match_directory and the start of run_match in the        *)
(* elimination script, test_submission in run_all_tests_parallel.py.       *)
(* present: the submission (directory, resp. student_agent.py) exists;     *)
(* cpp: it is a C++ submission; dir: what staging made of the player's     *)
(* directory; launched: the processes started, in order.                   *)
(***************************************************************************)
\* the player staged after the given one, or the first launch of run_game
AfterPlayer(who) == IF who = "player1" THEN "player2" ELSE "start_server"

\* one iteration of the loop over (player1, player2) in setup_match_directory: the
\* outcomes for the player's directory
StagedDirs(present, cpp) ==
    IF ~present THEN {"missing"}
    ELSE IF cpp THEN {"compiled", "compile_warning"}
    ELSE {"copied"}

InitStaging ==
    /\ limits = [p \in Procs |-> DefaultLimits]
    /\ frame = [p \in Procs |-> IdleFrame]
    /\ calls = [p \in Procs |-> 0]
    /\ NoRound
    /\ NoTournament
    /\ NoAllocator
    /\ NoGame
    /\ NoParse
    /\ NoTally
    /\ NoGroup
    /\ NoOuter
    /\ NoTests
    /\ \/ \E pr \in [player1 : BOOLEAN, player2 : BOOLEAN],
             cp \in [player1 : BOOLEAN, player2 : BOOLEAN] :
             staging = [IdleStaging EXCEPT !.script = "elimination", !.pc = "reference",
                                           !.present = pr, !.cpp = cp]
       \/ \E pr \in BOOLEAN, cp \in BOOLEAN :
             staging = [IdleStaging EXCEPT !.script = "tests", !.pc = "reference",
                                           !.present.player1 = pr, !.cpp.player1 = cp]

\* the reference files and the templates are copied into the directory
StageReference ==
    /\ staging.pc = "reference"
    /\ staging' = [staging EXCEPT
                      !.pc = IF staging.script = "elimination" THEN "player1"
                             ELSE "agent"]
    /\ UNCHANGED <<tests, outer, group, game, parse, tally, limits, frame, calls, roundVars, tourVars, portVars>>

\* a copy of the reference files raises (shutil, or cp with check=True)
StageReferenceRaises ==
    /\ staging.pc = "reference"
    /\ staging' = [staging EXCEPT !.pc = "raised"]
    /\ UNCHANGED <<tests, outer, group, game, parse, tally, limits, frame, calls, roundVars, tourVars, portVars>>

\* setup_match_directory, one player: a missing path is printed and skipped
StagePlayer(who) ==
    /\ staging.script = "elimination"
    /\ staging.pc = who
    /\ \E d \in StagedDirs(staging.present[who], staging.cpp[who]) :
          staging' = [staging EXCEPT !.dir[who] = d, !.pc = AfterPlayer(who)]
    /\ UNCHANGED <<tests, outer, group, game, parse, tally, limits, frame, calls, roundVars, tourVars, portVars>>

\* test_submission: the student's agent is copied, or the test returns a record
StageAgent ==
    /\ staging.script = "tests"
    /\ staging.pc = "agent"
    /\ staging' =
          IF staging.cpp.player1
          THEN [staging EXCEPT !.pc = "returned", !.status = "SKIPPED"]
          ELSE IF ~staging.present.player1
          THEN [staging EXCEPT !.pc = "returned", !.status = "ERROR",
                               !.dir.player1 = "missing"]
          ELSE [staging EXCEPT !.pc = "start_server", !.dir.player1 = "copied"]
    /\ UNCHANGED <<tests, outer, group, game, parse, tally, limits, frame, calls, roundVars, tourVars, portVars>>

\* the server of the first game (of the test) is started
StagedStartServer ==
    /\ staging.pc = "start_server"
    /\ staging' = [staging EXCEPT !.launched = Append(@, "server"),
                                  !.pc = "start_player1"]
    /\ UNCHANGED <<tests, outer, group, game, parse, tally, limits, frame, calls, roundVars, tourVars, portVars>>

\* the first player (the student's bot) is started
StagedStartPlayer1 ==
    /\ staging.pc = "start_player1"
    /\ staging' = [staging EXCEPT !.launched = Append(@, "player1"),
                                  !.pc = "start_player2"]
    /\ UNCHANGED <<tests, outer, group, game, parse, tally, limits, frame, calls, roundVars, tourVars, portVars>>

\* the second player (the random bot) is started
StagedStartPlayer2 ==
    /\ staging.pc = "start_player2"
    /\ staging' = [staging EXCEPT !.launched = Append(@, "player2"), !.pc = "playing"]
    /\ UNCHANGED <<tests, outer, group, game, parse, tally, limits, frame, calls, roundVars, tourVars, portVars>>

NextStaging ==
    \/ StageReference
    \/ StageReferenceRaises
    \/ \E who \in {"player1", "player2"} : StagePlayer(who)
    \/ StageAgent
    \/ StagedStartServer
    \/ StagedStartPlayer1
    \/ StagedStartPlayer2

SpecStaging == InitStaging /\ [][NextStaging]_vars

\* C34: if a participant's submission is missing when a match is staged, staging
\* fails with an error that is the outcome of the match, and no server or player
\* process is launched for that match.
C34_MissingSubmissionStopsMatch ==
    (staging.dir.player1 = "missing" \/ staging.dir.player2 = "missing") =>
        /\ staging.launched = << >>
        /\ staging.pc \notin {"start_server", "start_player1", "start_player2", "playing"}

(***************************************************************************)
(* run_single_tournament (run_all_tournaments.py): a copy of the tournament*)
(* script with the group's port is written, run under a timeout of two     *)
(* hours, and removed; the function returns a status record.  The clock    *)
(* counts half hours.                                                      *)
(***************************************************************************)
\* timeout=7200 of subprocess.run
OuterTimeout == 7200

\* the timeout in ticks of the clock
OuterTicks == OuterTimeout \div 1800

\* BASE_PORT = 9500 of run_all_tournaments.py
GroupBasePort == 9500

\* mutant: the temporary script is left in place
UnlinkSkipped(exists) == exists

\* if temp_script.exists(): temp_script.unlink()  -- whether the file exists afterwards
Unlinked(exists) == FALSE

\* the call run_single_tournament((group_num, group_dir)); a script of an earlier run
\* of the group may have been left behind
InitOuter ==
    /\ limits = [p \in Procs |-> DefaultLimits]
    /\ frame = [p \in Procs |-> IdleFrame]
    /\ calls = [p \in Procs |-> 0]
    /\ NoRound
    /\ NoTournament
    /\ NoAllocator
    /\ NoGame
    /\ NoParse
    /\ NoTally
    /\ NoGroup
    /\ NoStaging
    /\ NoTests
    /\ \E n \in 1..MaxSeed, left \in BOOLEAN :
          outer = [IdleOuter EXCEPT !.pc = "read", !.group_num = n,
                                    !.port = GroupBasePort + n, !.temp_script = left]

\* the tournament script is read
OuterRead ==
    /\ outer.pc = "read"
    /\ outer' = [outer EXCEPT !.pc = "write"]
    /\ UNCHANGED <<tests, staging, group, game, parse, tally, limits, frame, calls, roundVars, tourVars, portVars>>

\* open or read raises: except Exception
OuterReadRaises ==
    /\ outer.pc = "read"
    /\ outer' = [outer EXCEPT !.pc = "except_exception"]
    /\ UNCHANGED <<tests, staging, group, game, parse, tally, limits, frame, calls, roundVars, tourVars, portVars>>

\* the temporary script is written
OuterWrite ==
    /\ outer.pc = "write"
    /\ outer' = [outer EXCEPT !.pc = "run", !.temp_script = TRUE]
    /\ UNCHANGED <<tests, staging, group, game, parse, tally, limits, frame, calls, roundVars, tourVars, portVars>>

\* open or write raises: the file may have been created
OuterWriteRaises ==
    /\ outer.pc = "write"
    /\ \E made \in BOOLEAN :
          outer' = [outer EXCEPT !.pc = "except_exception",
                                 !.temp_script = @ \/ made]
    /\ UNCHANGED <<tests, staging, group, game, parse, tally, limits, frame, calls, roundVars, tourVars, portVars>>

\* subprocess.run starts the group run
OuterRun ==
    /\ outer.pc = "run"
    /\ outer' = [outer EXCEPT !.pc = "waiting", !.child = "running", !.clock = 0]
    /\ UNCHANGED <<tests, staging, group, game, parse, tally, limits, frame, calls, roundVars, tourVars, portVars>>

\* Popen raises: except Exception
OuterRunRaises ==
    /\ outer.pc = "run"
    /\ outer' = [outer EXCEPT !.pc = "except_exception"]
    /\ UNCHANGED <<tests, staging, group, game, parse, tally, limits, frame, calls, roundVars, tourVars, portVars>>

\* half an hour passes while the group run goes on
OuterTick ==
    /\ outer.pc = "waiting"
    /\ outer.clock < OuterTicks
    /\ outer' = [outer EXCEPT !.clock = @ + 1]
    /\ UNCHANGED <<tests, staging, group, game, parse, tally, limits, frame, calls, roundVars, tourVars, portVars>>

\* the group run ends within the timeout, with return code 0 or not
OuterChildExits ==
    /\ outer.pc = "waiting"
    /\ \E rc \in {"exit_0", "exit_nonzero"} :
          outer' = [outer EXCEPT !.pc = "cleanup", !.child = rc]
    /\ UNCHANGED <<tests, staging, group, game, parse, tally, limits, frame, calls, roundVars, tourVars, portVars>>

\* the timeout expires: subprocess.run kills the child and raises TimeoutExpired
OuterTimesOut ==
    /\ outer.pc = "waiting"
    /\ outer.clock = OuterTicks
    /\ outer' = [outer EXCEPT !.pc = "sweep_server", !.child = "killed"]
    /\ UNCHANGED <<tests, staging, group, game, parse, tally, limits, frame, calls, roundVars, tourVars, portVars>>

\* pkill of the servers of the port, then of the bots, each with timeout=5; an
\* exception of either leaves the try block
OuterSweep ==
    /\ outer.pc \in {"sweep_server", "sweep_bots"}
    /\ \/ outer' = [outer EXCEPT
                       !.swept = @ \cup {outer.pc},
                       !.pc = IF outer.pc = "sweep_server" THEN "sweep_bots"
                              ELSE "except_timeout"]
       \/ outer' = [outer EXCEPT !.pc = "except_timeout"]
    /\ UNCHANGED <<tests, staging, group, game, parse, tally, limits, frame, calls, roundVars, tourVars, portVars>>

\* the temporary script is removed and the status record is returned
OuterReturn ==
    /\ outer.pc \in {"cleanup", "except_timeout", "except_exception"}
    /\ outer' = [outer EXCEPT
                    !.temp_script = IF @ THEN Unlinked(@) ELSE @,
                    !.status = CASE outer.pc = "cleanup" /\ outer.child = "exit_0"
                                      -> "success"
                                 [] outer.pc = "cleanup" /\ outer.child # "exit_0"
                                      -> "failed"
                                 [] outer.pc = "except_timeout" -> "timeout"
                                 [] OTHER -> "error",
                    !.pc = "returned"]
    /\ UNCHANGED <<tests, staging, group, game, parse, tally, limits, frame, calls, roundVars, tourVars, portVars>>

NextOuter ==
    \/ OuterRead
    \/ OuterReadRaises
    \/ OuterWrite
    \/ OuterWriteRaises
    \/ OuterRun
    \/ OuterRunRaises
    \/ OuterTick
    \/ OuterChildExits
    \/ OuterTimesOut
    \/ OuterSweep
    \/ OuterReturn

SpecOuter == InitOuter /\ [][NextOuter]_vars

\* C35: run_single_tournament does not wait for the group run beyond the outer
\* timeout; it returns one record with status success, failed, timeout or error; a
\* run that exceeds the timeout is killed and returns timeout; and on every path by
\* which the function returns the temporary script of the group has been removed.
C35_OuterBudgetAndCleanup ==
    /\ outer.clock <= OuterTicks
    /\ outer.child = "running" => outer.pc = "waiting"
    /\ outer.pc = "returned" =>
          /\ outer.status \in {"success", "failed", "timeout", "error"}
          /\ ~outer.temp_script
          /\ outer.status = "timeout" <=> outer.child = "killed"
          /\ outer.child = "killed" => outer.clock = OuterTicks

\* a group run was killed at the timeout and the function has returned timeout
C35_Witness ==
    /\ outer.pc = "returned"
    /\ outer.status = "timeout"
    /\ outer.child = "killed"
    /\ outer.swept = {"sweep_server", "sweep_bots"}

(***************************************************************************)
(* The win counts of a role-swapped pair                                   *)
(***************************************************************************)
\* 1 if the word is the given role, else 0
Credit(word, role) == IF word = role THEN 1 ELSE 0

\* the win counts of a stage are within 0..2 and sum to at most 2
PairCounts(a, b) == a \in 0..2 /\ b \in 0..2 /\ a + b <= 2

StageWatchdog(f) ==
    CASE StageOf(f.game) = "NORMAL" -> f.timeout = DefaultLimits.watchdog
      [] StageOf(f.game) = "TB1" -> /\ f.timeout = TB1Limits.watchdog
                                    /\ f.timeout < f.normal_timeout
      [] StageOf(f.game) = "TB2" -> /\ f.timeout = TB2Limits.watchdog
                                    /\ f.timeout < TB1Limits.watchdog
      [] OTHER -> TRUE

\* a stage that ended the match ran exactly two games after the stages before it,
\* and its winner is the participant with more wins in that stage
StageAwards(f) ==
    /\ f.pc = "returned" /\ f.tiebreaker = "tiebreaker_battle_1" =>
          /\ f.games = 4
          /\ f.tb1_p1_wins # f.tb1_p2_wins
          /\ f.match_winner =
                IF f.tb1_p1_wins > f.tb1_p2_wins THEN f.player1 ELSE f.player2
    /\ f.pc = "returned" /\ f.tiebreaker = "tiebreaker_battle_2" =>
          /\ f.games = 6
          /\ f.tb1_p1_wins = f.tb1_p2_wins
          /\ f.tb2_p1_wins # f.tb2_p2_wins
          /\ f.match_winner =
                IF f.tb2_p1_wins > f.tb2_p2_wins THEN f.player1 ELSE f.player2
    /\ f.pc = "returned" /\ f.tb1_p1_wins # f.tb1_p2_wins =>
          f.tiebreaker = "tiebreaker_battle_1"
    /\ f.pc = "returned" /\ f.tb2_p1_wins # f.tb2_p2_wins =>
          f.tiebreaker = "tiebreaker_battle_2"

\* C37: battle 1 and battle 2 each consist of exactly two role-swapped games, run
\* under a watchdog shorter than that of the stage before (300 in NORMAL, 150 in
\* battle 1, 90 in battle 2); a stage whose two win counts differ awards the match
\* to the participant with more wins in that stage alone.
C37_TiebreakStages ==
    \A p \in Procs : StageWatchdog(frame[p]) /\ StageAwards(frame[p])

\* the same for the matches that found the default limits at their call
TiebreakStagesFromDefaults ==
    \A p \in Procs :
       /\ StageAwards(frame[p])
       /\ frame[p].entry = DefaultLimits => StageWatchdog(frame[p])
       /\ StageOf(frame[p].game) = "TB1" => frame[p].timeout = TB1Limits.watchdog
       /\ StageOf(frame[p].game) = "TB2" => frame[p].timeout = TB2Limits.watchdog

(***************************************************************************)
(* The games of one elimination match, one run_game call after the other   *)
(* (run_elimination_tournament.py).  The clock of a game counts from its   *)
(* call.                                                                   *)
(***************************************************************************)
\* time.sleep(5) of run_match before game 2 of a pair and before battle 2
BetweenGames == 5

\* the roles of the processes of a game
GameProcs == {"server", "player1", "player2"}

\* the processes of the match that are alive: those of earlier games that were
\* left running and those of the game in progress
Live ==
    game.earlier \cup {<<game.index, k>> : k \in {r \in GameProcs : game[r] = "running"}}

\* run_match sleeps before every game but the first of battle 1
PauseBefore(index) == IF GamePcs[index] = "tiebreaker1_game1" THEN 0 ELSE Ticks(BetweenGames)

InitMatchGames ==
    /\ limits = [p \in Procs |-> DefaultLimits]
    /\ frame = [p \in Procs |-> IdleFrame]
    /\ calls = [p \in Procs |-> 0]
    /\ NoRound
    /\ NoTournament
    /\ NoAllocator
    /\ NoParse
    /\ NoTally
    /\ NoGroup
    /\ NoStaging
    /\ NoOuter
    /\ NoTests
    /\ \E b \in BOARD_SIZES :
          game = [IdleGame EXCEPT !.variant = "elimination", !.board_size = b,
                                  !.pc = EntryPc]

\* open or Popen raises: the exception leaves run_game and run_match
LaunchRaises ==
    /\ game.variant = "elimination"
    /\ game.pc \in {"start_server", "start_player1", "start_player2"}
    /\ game' = [game EXCEPT !.pc = "raised"]
    /\ UNCHANGED <<tests, outer, staging, group, parse, tally, limits, frame, calls, roundVars, tourVars, portVars>>

\* run_game has returned and run_match calls it for the next game of the match,
\* on the same port
AnotherGame ==
    /\ game.variant = "elimination"
    /\ game.pc = "returned"
    /\ game.index < Len(GamePcs)
    /\ game' = [IdleGame EXCEPT
                   !.variant = game.variant,
                   !.board_size = game.board_size,
                   !.pc = EntryPc,
                   !.index = game.index + 1,
                   !.earlier = Live,
                   !.cleaned = /\ game.cleaned
                               /\ game.swept
                               /\ \A k \in GameProcs : game.stop[k] # "",
                   !.waited = (game.clock - game.watchdog_end)
                                 + PauseBefore(game.index + 1)]
    /\ UNCHANGED <<tests, outer, staging, group, parse, tally, limits, frame, calls, roundVars, tourVars, portVars>>

NextMatchGames ==
    \/ StartServer
    \/ SettleDelayEnds
    \/ StartPlayer1
    \/ PlayerGapEnds
    \/ StartPlayer2
    \/ WatchdogPollStep
    \/ Teardown
    \/ PortSweep
    \/ ParseLogs
    \/ ServerExits
    \/ LaunchRaises
    \/ AnotherGame

SpecMatchGames == InitMatchGames /\ [][NextMatchGames]_vars

NUM_PARALLEL_SERVERS == 2

\* the largest number of eligible submissions
MaxTests == 9

\* BASE_PORT of run_all_tests_parallel.py
TestBasePort == 9500

\* a pool worker without a task
Free == -1

\* port = BASE_PORT + (i % NUM_PARALLEL_SERVERS)
TestPort(i) == TestBasePort + (i % NUM_PARALLEL_SERVERS)

\* Pool.map: chunksize, extra = divmod(len(iterable), len(pool) * 4); one more if extra
MapChunkSize(n) ==
    (n \div (NUM_PARALLEL_SERVERS * 4))
       + (IF n % (NUM_PARALLEL_SERVERS * 4) # 0 THEN 1 ELSE 0)

\* the number of chunks the task list is cut into
NumChunks(n, chunksize) == (n + chunksize - 1) \div chunksize

\* the tests whose test_submission call is in progress
RunningTests == {tests.worker[w] : w \in DOMAIN tests.worker} \ {Free}

InitTests ==
    /\ limits = [p \in Procs |-> DefaultLimits]
    /\ frame = [p \in Procs |-> IdleFrame]
    /\ calls = [p \in Procs |-> 0]
    /\ NoRound
    /\ NoTournament
    /\ NoAllocator
    /\ NoGame
    /\ NoParse
    /\ NoTally
    /\ NoGroup
    /\ NoStaging
    /\ NoOuter
    /\ \E n \in 1..MaxTests :
          tests = [pc |-> "mapping", n |-> n, chunksize |-> MapChunkSize(n),
                   next_chunk |-> 0,
                   worker |-> [w \in 1..NUM_PARALLEL_SERVERS |-> Free],
                   done |-> {}]

\* a free worker takes the next chunk of the task list and calls test_submission
\* on its first test
TestsTakeChunk ==
    /\ tests.pc = "mapping"
    /\ tests.next_chunk < NumChunks(tests.n, tests.chunksize)
    /\ \E w \in DOMAIN tests.worker :
          /\ tests.worker[w] = Free
          /\ tests' = [tests EXCEPT !.worker[w] = tests.next_chunk * tests.chunksize,
                                    !.next_chunk = @ + 1]
    /\ UNCHANGED <<outer, staging, group, game, parse, tally, limits, frame, calls, roundVars, tourVars, portVars>>

\* test_submission returns; the worker goes on with the next test of its chunk
TestsFinishTest ==
    /\ tests.pc = "mapping"
    /\ \E w \in DOMAIN tests.worker :
          LET i == tests.worker[w] IN
          /\ i # Free
          /\ tests' = [tests EXCEPT
                          !.done = @ \cup {i},
                          !.worker[w] = IF (i + 1) % tests.chunksize # 0 /\ i + 1 < tests.n
                                        THEN i + 1 ELSE Free]
    /\ UNCHANGED <<outer, staging, group, game, parse, tally, limits, frame, calls, roundVars, tourVars, portVars>>

\* every test has returned: pool.map returns
TestsMapReturns ==
    /\ tests.pc = "mapping"
    /\ tests.done = 0..(tests.n - 1)
    /\ tests' = [tests EXCEPT !.pc = "returned"]
    /\ UNCHANGED <<outer, staging, group, game, parse, tally, limits, frame, calls, roundVars, tourVars, portVars>>

NextTests ==
    \/ TestsTakeChunk
    \/ TestsFinishTest
    \/ TestsMapReturns

SpecTests == InitTests /\ [][NextTests]_vars

\* C39: no two tests whose test_submission calls are in progress at the same
\* time have been given the same port.
C39_RunningTestsHaveDistinctPorts ==
    \A i, j \in RunningTests : i # j => TestPort(i) # TestPort(j)

\* the same for runs with no more tests than pool workers
DistinctPortsUpToPoolSize ==
    tests.n <= NUM_PARALLEL_SERVERS => C39_RunningTestsHaveDistinctPorts

(***************************************************************************)
(* Exceptions in the group stage                                           *)
(***************************************************************************)
\* the entries of a game that crashed: winner 'error', an error text, no scores
CrashEntry(e) ==
    /\ e.winner = "error"
    /\ e.error # ""
    /\ e.player1_score = EmptyCell
    /\ e.player2_score = EmptyCell

\* C40: in a group-stage match an exception in game 1 is recorded as winner 'error'
\* with the error text and unset scores, and game 2 of the match is still run (the
\* same for game 2 and the summary); an exception that leaves a whole match does
\* not stop the loop, which goes on with the remaining matches.
C40_GroupExceptionsContained ==
    /\ 1 \in group.crashed =>
          /\ CrashEntry(group.game1)
          /\ group.pc \in {"game2", "summary", "write"}
          /\ group.pc # "game2" => group.game2 # NoEntry
    /\ 2 \in group.crashed =>
          /\ CrashEntry(group.game2)
          /\ group.pc \in {"summary", "write"}
    /\ \A m \in group.escaped :
          \/ group.match_num > m
          \/ m = Len(group.matches) /\ group.pc = "done"
    /\ group.pc = "done" =>
          \A m \in 1..Len(group.matches) :
             m \in group.escaped \/ \E k \in 1..Len(group.csv) : group.csv[k] = m

\* game 1 of a match crashed and game 2 was played and won, in a match that came
\* after one an exception had left
C40_Witness ==
    /\ group.escaped # {}
    /\ group.crashed = {1}
    /\ group.game1 = GameCrashed
    /\ group.game2.winner = "circle"
    /\ group.pc = "write"

====
